---- MODULE Spec2Model ----
(***************************************************************************)
(* State-machine model of the swap settlement engine:                      *)
(*   - TradeAutoManager  (src/src/prompt/tradeAuto.js)                     *)
(*   - AutopostManager   (src/src/prompt/autopost.js)                      *)
(*   - TradeReceiptsStore listing locks (src/unnamed/part_003)             *)
(* Time is counted in units of 5 seconds (the greatest common divisor of   *)
(* the driver's cooldowns); every duration below is given in that unit.    *)
(***************************************************************************)
EXTENDS Integers, Sequences, FiniteSets, TLC

VARIABLES
    \* ---- environment of the settlement driver
    now,                    \* Date.now(), in time units
    log,                    \* the sidechannel event log read with scLogRead
    univ,                   \* envelopes other parties may still publish
    lim,                    \* the extent of the run: [time, starts, faults]
    faults,                 \* external calls that have failed so far
    \* ---- TradeAutoManager fields
    running,                \* this.running
    timerRef,               \* this._timer is set
    timers,                 \* number of live setInterval timers created by start()
    tickInFlight,           \* this._tickInFlight
    lastSeq,                \* this._lastSeq
    events,                 \* this._events, each event given by its seq in the log
    autoQuotedRfqSig,       \* this._autoQuotedRfqSig       (insertion ordered)
    autoAcceptedQuoteSig,   \* this._autoAcceptedQuoteSig
    autoAcceptedTradeLock,  \* this._autoAcceptedTradeLock  (trade_id -> locked_at)
    autoInvitedAcceptSig,   \* this._autoInvitedAcceptSig
    autoJoinedInviteSig,    \* this._autoJoinedInviteSig
    stageDone,              \* this._stageDone              (stage_key -> done_at)
    stageInFlight,          \* this._stageInFlight
    stageRetryAfter,        \* this._stageRetryAfter        (key -> earliest retry)
    tradePreimage,          \* this._tradePreimage
    nextScEnsureAt,         \* this._nextScEnsureAt
    \* ---- activations of the async functions start() and _tick()
    startsPending,          \* start() calls suspended on their subscribe call
    ticks,                  \* the _tick() activations, each with its locals
    \* ---- observation (history) of the driver
    phase,                  \* "new" | "stopped" | "restarted"
    starts,                 \* number of start() calls made so far
    okKeys,                 \* keys whose tool invocation has succeeded
    acceptOk,               \* trade_id -> number of successful quote_accept calls
    failAt,                 \* the failed attempts: stage or event key, time of the last failure
    \* ---- AutopostManager
    apNow,                  \* Math.floor(Date.now() / 1000) seen by the autopost manager
    jobs,                   \* this.jobs : name -> job (0 = no entry)
    job,                    \* the job objects created by start(), with their activations
    apFixed,                \* observation: the expiry each job was started with
    apCalls,                \* observation: the runTool invocations made so far
    apLast,                 \* observation: the error the last start() call threw ("" = none)
    \* ---- TradeReceiptsStore listing_locks table
    locks,                  \* listing_key -> row
    dbNow,                  \* nowMs() seen by the receipts store
    trades,                 \* the trades table: trade_id -> row
    \* ---- a call of matchOfferForRfq on its own
    mArgs,                  \* { rfqEvt, myOfferEvents } and the clock the call reads
    mRet,                   \* the value returned (done = the call has returned)
    \* ---- ScBridgeClient
    ws,                     \* this.ws: "null", or the socket with the handlers it has
    ready,                  \* the promise connect() awaits
    _pending,               \* this._pending: the ids with an entry
    _nextId,                \* this._nextId
    rpcs,                   \* id -> the promise _rpc returned for it
    rpcTimers               \* the ids whose rpc timeout timer is set

driverVars == <<now, log, univ, lim, faults, running, timerRef, timers, tickInFlight, lastSeq,
                events, autoQuotedRfqSig, autoAcceptedQuoteSig, autoAcceptedTradeLock,
                autoInvitedAcceptSig, autoJoinedInviteSig, stageDone, stageInFlight,
                stageRetryAfter, tradePreimage, nextScEnsureAt, startsPending, ticks,
                phase, starts, okKeys, acceptOk, failAt>>
apVars == <<apNow, jobs, job, apFixed, apCalls, apLast>>
lockVars == <<locks, dbNow, trades>>
matchVars == <<mArgs, mRet>>
bridgeVars == <<ws, ready, _pending, _nextId, rpcs, rpcTimers>>
vars == <<driverVars, apVars, lockVars, matchVars, bridgeVars>>

----------------------------------------------------------------------------
(* Bounds of the model. *)
MaxTime == 8          \* the clock runs from 1 to MaxTime
MaxLog == 8           \* length of the event log
MaxTicks == 2         \* _tick() activations alive at the same time
MaxStarts == 3        \* start() calls
ShortTime == 2        \* the horizon of the runs in which nothing ages
RetryTime == 3        \* the horizon of the runs in which a stage is retried
MaxFaults == 1        \* external calls that fail in one run
MaxJobs == 1          \* autopost job objects alive at the same time
MaxQueue == 1         \* runs waiting on job._queue
MaxApTime == 25       \* the autopost clock runs from 0 to MaxApTime
ApStep == 5           \* seconds per step of the autopost clock
MatchNow == 10         \* the clock a call of the matcher reads
MaxDbTime == 2        \* the clock of the receipts store runs from 0 to MaxDbTime
MaxRpc == 3           \* _rpc calls made on one ScBridgeClient

(* Options passed to start(), in time units (5 s). *)
EventMaxAge == 12     \* event_max_age_ms = 60000
LockMaxAge == 6       \* lock_max_age_ms  = 30000
DoneMaxAge == 12      \* done_max_age_ms  = 60000
ScEnsureInterval == 1 \* sc_ensure_interval_ms = 5000
DedupeMax == 500      \* dedupe_max
StageMax == 500       \* stage_max
PreimageMax == 100    \* preimage_max
MaxTrades == 10       \* max_trades
MaxEvents == 200      \* max_events

(* Program constants. *)
ActionsPerTick == 12
EventCooldown == 1    \* 5000 ms
StageCooldown == 2    \* 10000 ms
ClaimCooldown == 3    \* 15000 ms
MinWindowSec == 3600
MaxWindowSec == 604800
DefaultWindowSec == 259200
MaxPlatformBps == 500
MaxTradeBps == 1000
MaxTotalBps == 1500

MinIntervalSec == 1
MaxIntervalSec == 86400
MinTtlSec == 10
MinHorizonSec == 10
MaxHorizonSec == 604800
Null == -1            \* null / undefined / not a finite number
LocalPeer == "peerL"  \* the public key sc_info returns
OtherPeer == "peerR"
LocalSol == "solL"    \* the public key sol_signer_pubkey returns
OtherSol == "solR"
UsdtMint == "mint"    \* opts.usdt_mint

----------------------------------------------------------------------------
(* Sequences used as insertion-ordered Sets and Maps. *)
Range(s) == {s[i] : i \in 1..Len(s)}

Reverse(s) == [i \in 1..Len(s) |-> s[Len(s) + 1 - i]]

SetHas(s, x) == \E i \in 1..Len(s) : s[i] = x
SetAdd(s, x) == IF SetHas(s, x) THEN s ELSE Append(s, x)
SetDel(s, x) == SelectSeq(s, LAMBDA y : y # x)

MapHas(m, k) == \E i \in 1..Len(m) : m[i].k = k
MapGet(m, k) == (CHOOSE i \in 1..Len(m) : m[i].k = k)
MapVal(m, k, dflt) == IF MapHas(m, k) THEN m[MapGet(m, k)].v ELSE dflt
MapSet(m, k, v) ==
    IF MapHas(m, k) THEN [m EXCEPT ![MapGet(m, k)] = [k |-> k, v |-> v]]
    ELSE Append(m, [k |-> k, v |-> v])
MapDel(m, k) == SelectSeq(m, LAMBDA e : e.k # k)
MapKeys(m) == {m[i].k : i \in 1..Len(m)}

Max2(a, b) == IF a >= b THEN a ELSE b
Min2(a, b) == IF a <= b THEN a ELSE b

----------------------------------------------------------------------------
(* Log events.  An event is {seq, ts, channel, kind, trade_id, message};    *)
(* the fields the driver reads are kept, the envelope body flattened into   *)
(* `body`.  "" stands for a missing or malformed string, Null for a missing *)
(* number; `id` is the envelope hash (hashUnsignedEnvelope) of a quote.     *)
SwapChannels == {"swap:T1", "swap:T2"}
RfqChannel == "otc"

BodyNil == [btc |-> Null, usdt |-> Null, mint |-> "", recip |-> "", refund |-> "",
            refundAfter |-> Null, feeColl |-> "", payer |-> "", payHash |-> "",
            validUntil |-> Null, window |-> Null, quoteId |-> "", invitee |-> "",
            swapCh |-> "", preimage |-> "",
            maxPlat |-> Null, maxTrade |-> Null, maxTotal |-> Null,
            minWin |-> Null, maxWin |-> Null, rfqChannels |-> <<>>, offers |-> <<>>]

EvNil == [kind |-> "", trade |-> "", signer |-> "", sig |-> "", local |-> FALSE,
          ch |-> "", ts |-> 0, id |-> "", body |-> BodyNil]

Has(e) == e.kind # ""

\* envelopeKind / envelopeTradeId / envelopeSigner / envelopeSig
envelopeKind(e) == e.kind
envelopeTradeId(e) == e.trade
envelopeSigner(e) == e.signer
envelopeSig(e) == e.sig

\* eventTs: a missing or non-positive ts reads as the current time
eventTs(e, t) == IF e.ts > 0 THEN e.ts ELSE t

isLocalEvent(e) == e.local

isEventStale(e, maxAge, t) == t - eventTs(e, t) > maxAge

IsSwapCh(ch) == ch \in SwapChannels

SwapKinds == {"swap.rfq", "swap.quote", "swap.quote_accept", "swap.swap_invite",
              "swap.svc_announce", "swap.terms", "swap.accept", "swap.ln_invoice",
              "swap.sol_escrow_created", "swap.ln_paid", "swap.sol_claimed",
              "swap.sol_refunded", "swap.cancel"}
TerminalKinds == {"swap.sol_claimed", "swap.sol_refunded", "swap.cancel"}

(* Events are objects of the log and never change: `events`, a tick's      *)
(* snapshot and its contexts hold them by their seq (0: no event).         *)
Deref(seqs) == [i \in 1..Len(seqs) |-> log[seqs[i]]]
EvAt(n) == IF n = 0 THEN EvNil ELSE log[n]

MinOf(I) == IF I = {} THEN 0 ELSE CHOOSE i \in I : \A j \in I : i <= j
MaxOf(I) == IF I = {} THEN 0 ELSE CHOOSE i \in I : \A j \in I : i >= j
At(s, i) == IF i = 0 THEN 0 ELSE s[i]

(* _buildContexts({events, localPeer}). *)
IsLocal(e, peer) == isLocalEvent(e) \/ (peer # "" /\ envelopeSigner(e) = peer)

\* the events the fold does not skip
Folded(snap) == SelectSeq(snap, LAMBDA n : log[n].kind \in SwapKinds)

MyRfqTradeIds(f, peer) ==
    {log[n].trade : n \in {m \in Range(f) : /\ log[m].kind = "swap.rfq"
                                           /\ IsLocal(log[m], peer)
                                           /\ log[m].trade # ""}}

\* the events of one kind that are local (local = TRUE) or not
OfKind(f, kind, peer, local) ==
    SelectSeq(f, LAMBDA n : log[n].kind = kind /\ (IsLocal(log[n], peer) <=> local))

TerminalTradeIds(f) ==
    {log[n].trade : n \in {m \in Range(f) : /\ log[m].trade # ""
                                           /\ IsSwapCh(log[m].ch)
                                           /\ log[m].kind \in TerminalKinds}}

\* swapNegotiationByTrade: the first-seen rfq, quote, quote_accept of a trade
NegOf(f, tradeId, kind) ==
    At(f, MinOf({i \in 1..Len(f) : log[f[i]].trade = tradeId /\ log[f[i]].kind = kind}))

\* swapTradeContextsByTrade: the last-seen envelope of a kind on a swap: channel
CtxOf(f, tradeId, kind) ==
    At(f, MaxOf({i \in 1..Len(f) : /\ log[f[i]].trade = tradeId
                                   /\ IsSwapCh(log[f[i]].ch)
                                   /\ log[f[i]].kind = kind}))

CtxEvents(f, tradeId) ==
    SelectSeq(f, LAMBDA n : log[n].trade = tradeId /\ IsSwapCh(log[n].ch))

LastChannel(s) == IF s = <<>> THEN "" ELSE log[s[Len(s)]].ch

RECURSIVE MaxTs(_, _)
MaxTs(s, t) == IF s = <<>> THEN 0 ELSE Max2(eventTs(log[Head(s)], t), MaxTs(Tail(s), t))

\* one entry of swapTradeContexts, with the trade's negotiation envelopes
TradeCtx(f, tradeId, t) ==
    [trade_id |-> tradeId,
     channel |-> LastChannel(CtxEvents(f, tradeId)),
     last_ts |-> MaxTs(CtxEvents(f, tradeId), t),
     terms |-> CtxOf(f, tradeId, "swap.terms"),
     accept |-> CtxOf(f, tradeId, "swap.accept"),
     invoice |-> CtxOf(f, tradeId, "swap.ln_invoice"),
     escrow |-> CtxOf(f, tradeId, "swap.sol_escrow_created"),
     ln_paid |-> CtxOf(f, tradeId, "swap.ln_paid"),
     claimed |-> CtxOf(f, tradeId, "swap.sol_claimed"),
     refunded |-> CtxOf(f, tradeId, "swap.sol_refunded"),
     canceled |-> CtxOf(f, tradeId, "swap.cancel"),
     rfq |-> NegOf(f, tradeId, "swap.rfq"),
     quote |-> NegOf(f, tradeId, "swap.quote"),
     quote_accept |-> NegOf(f, tradeId, "swap.quote_accept")]

\* trade ids in Map insertion order (first event seen on a swap: channel)
RECURSIVE FirstSeen(_, _)
FirstSeen(s, acc) ==
    IF s = <<>> THEN acc
    ELSE FirstSeen(Tail(s), IF log[Head(s)].trade # "" /\ IsSwapCh(log[Head(s)].ch)
                            THEN SetAdd(acc, log[Head(s)].trade) ELSE acc)

\* Array.prototype.sort (stable) by last_ts descending
InsertDesc(sorted, x) ==
    SubSeq(sorted, 1, Cardinality({i \in 1..Len(sorted) : sorted[i].last_ts >= x.last_ts}))
    \o <<x>> \o
    SubSeq(sorted, Cardinality({i \in 1..Len(sorted) : sorted[i].last_ts >= x.last_ts}) + 1,
           Len(sorted))

RECURSIVE SortByLastTs(_, _)
SortByLastTs(todo, sorted) ==
    IF todo = <<>> THEN sorted
    ELSE SortByLastTs(Tail(todo), InsertDesc(sorted, Head(todo)))

TradeCtxs(f, ids, t) == [i \in 1..Len(ids) |-> TradeCtx(f, ids[i], t)]

NoCtx == [myRfqTradeIds |-> {}, myQuotes |-> <<>>, myOfferEvents |-> <<>>,
          quoteEvents |-> <<>>, acceptEvents |-> <<>>, inviteEvents |-> <<>>,
          terminalTradeIds |-> {}, swapTradeContexts |-> <<>>]

BuildFrom(f, peer, t) ==
    [myRfqTradeIds |-> MyRfqTradeIds(f, peer),
     myQuotes |-> OfKind(f, "swap.quote", peer, TRUE),
     myOfferEvents |-> OfKind(f, "swap.svc_announce", peer, TRUE),
     quoteEvents |-> OfKind(f, "swap.quote", peer, FALSE),
     acceptEvents |-> OfKind(f, "swap.quote_accept", peer, FALSE),
     inviteEvents |-> OfKind(f, "swap.swap_invite", peer, FALSE),
     terminalTradeIds |-> TerminalTradeIds(f),
     swapTradeContexts |-> SortByLastTs(TradeCtxs(f, FirstSeen(f, <<>>), t), <<>>)]

_buildContexts(snap, peer, t) == BuildFrom(Folded(snap), peer, t)

\* myQuoteById.get(quoteId): Map.set overwrites, so the last local quote wins
MyQuoteById(ctx, quoteId) ==
    At(ctx.myQuotes, MaxOf({i \in 1..Len(ctx.myQuotes) : log[ctx.myQuotes[i]].id = quoteId}))

----------------------------------------------------------------------------
(* matchOfferForRfq: the refund window of the first matching offer line,   *)
(* Null when no line matches.                                              *)
ClampFee(v, cap) == Max2(0, Min2(cap, IF v = Null THEN cap ELSE v))
ClampWin(v, dflt) == Max2(MinWindowSec, Min2(MaxWindowSec, IF v = Null THEN dflt ELSE v))

LineMatches(rfqBody, line) ==
    LET rfqMinWin == ClampWin(rfqBody.minWin, MinWindowSec)
        rfqMaxWin == ClampWin(rfqBody.maxWin, MaxWindowSec)
        lineMinWin == ClampWin(line.minWin, MinWindowSec)
        lineMaxWin == ClampWin(line.maxWin, MaxWindowSec)
    IN /\ ~(line.btc = Null \/ line.btc < 1 \/ line.usdt = Null)
       /\ line.btc = rfqBody.btc /\ line.usdt = rfqBody.usdt
       /\ ~(\/ ClampFee(line.maxPlat, MaxPlatformBps) > ClampFee(rfqBody.maxPlat, MaxPlatformBps)
            \/ ClampFee(line.maxTrade, MaxTradeBps) > ClampFee(rfqBody.maxTrade, MaxTradeBps)
            \/ ClampFee(line.maxTotal, MaxTotalBps) > ClampFee(rfqBody.maxTotal, MaxTotalBps))
       /\ Max2(rfqMinWin, lineMinWin) <= Min2(rfqMaxWin, lineMaxWin)

\* a window that is 72 h whatever the two ranges are
LineWindow_Unclamped(rfqBody, line) == DefaultWindowSec

LineWindow(rfqBody, line) ==
    LET overlapMin == Max2(ClampWin(rfqBody.minWin, MinWindowSec), ClampWin(line.minWin, MinWindowSec))
        overlapMax == Min2(ClampWin(rfqBody.maxWin, MaxWindowSec), ClampWin(line.maxWin, MaxWindowSec))
        w1 == IF DefaultWindowSec < overlapMin THEN overlapMin ELSE DefaultWindowSec
    IN IF w1 > overlapMax THEN overlapMax ELSE w1

\* an offer filter that lets every offer through
OfferUsable_Always(rfqEvt, offerEvt, nowSec) == TRUE

OfferUsable(rfqEvt, offerEvt, nowSec) ==
    LET body == offerEvt.body IN
    /\ ~(body.validUntil # Null /\ body.validUntil <= nowSec)
    /\ ~(Len(body.rfqChannels) > 0 /\ rfqEvt.ch # "" /\ ~SetHas(body.rfqChannels, rfqEvt.ch))

matchOfferForRfq(rfqEvt, myOfferEvents, nowSec) ==
    LET rfqBody == rfqEvt.body
        hits == {p \in (1..Len(myOfferEvents)) \X (1..3) :
                    /\ OfferUsable(rfqEvt, myOfferEvents[p[1]], nowSec)
                    /\ p[2] <= Len(myOfferEvents[p[1]].body.offers)
                    /\ LineMatches(rfqBody, myOfferEvents[p[1]].body.offers[p[2]])}
        first == CHOOSE p \in hits :
                    \A q \in hits : p[1] < q[1] \/ (p[1] = q[1] /\ p[2] <= q[2])
    IN IF rfqBody.btc = Null \/ rfqBody.btc < 1 \/ rfqBody.usdt = Null THEN Null
       ELSE IF ClampWin(rfqBody.minWin, MinWindowSec) > ClampWin(rfqBody.maxWin, MaxWindowSec) THEN Null
       ELSE IF hits = {} THEN Null
       ELSE LineWindow(rfqBody, myOfferEvents[first[1]].body.offers[first[2]])

----------------------------------------------------------------------------
(* The driver's caches, handled as one record so that the helpers below    *)
(* read like the methods they model.                                       *)
Caches == [quoted |-> autoQuotedRfqSig, accepted |-> autoAcceptedQuoteSig,
           lock |-> autoAcceptedTradeLock, invited |-> autoInvitedAcceptSig,
           joined |-> autoJoinedInviteSig, done |-> stageDone, infl |-> stageInFlight,
           retry |-> stageRetryAfter, pre |-> tradePreimage]

EmptyCaches == [quoted |-> <<>>, accepted |-> <<>>, lock |-> <<>>, invited |-> <<>>,
                joined |-> <<>>, done |-> <<>>, infl |-> <<>>, retry |-> <<>>, pre |-> <<>>]

SetCaches(c) ==
    /\ autoQuotedRfqSig' = c.quoted
    /\ autoAcceptedQuoteSig' = c.accepted
    /\ autoAcceptedTradeLock' = c.lock
    /\ autoInvitedAcceptSig' = c.invited
    /\ autoJoinedInviteSig' = c.joined
    /\ stageDone' = c.done
    /\ stageInFlight' = c.infl
    /\ stageRetryAfter' = c.retry
    /\ tradePreimage' = c.pre

\* A key "<trade_id>:<stage>" or "evt:<flow>:<sig>" is kept as its ':'-separated
\* segments; a trade id that itself contains ':' has several segments.
TradeSegs(tradeId) == IF tradeId = "T1:x" THEN <<"T1", "x">> ELSE <<tradeId>>
StageKey(tradeId, stage) == TradeSegs(tradeId) \o <<stage>>
\* String(key).startsWith(`${tradeId}:`)
KeyStartsWith(key, tradeId) ==
    LET p == TradeSegs(tradeId) IN
    Len(key) > Len(p) /\ SubSeq(key, 1, Len(p)) = p

_canRunStage(c, stageKey, t) ==
    /\ stageKey # <<>>
    /\ ~MapHas(c.done, stageKey)
    /\ ~SetHas(c.infl, stageKey)
    /\ t >= MapVal(c.retry, stageKey, 0)

_markStageInFlight(c, stageKey) == [c EXCEPT !.infl = SetAdd(@, stageKey)]

_markStageSuccess(c, stageKey, t) ==
    [c EXCEPT !.infl = SetDel(@, stageKey),
              !.retry = MapDel(@, stageKey),
              !.done = MapSet(@, stageKey, t)]

_markStageRetry(c, stageKey, cooldown, t) ==
    [c EXCEPT !.infl = SetDel(@, stageKey),
              !.retry = MapSet(@, stageKey, t + cooldown)]

_eventRetryKey(flow, sig) == <<"evt", flow, sig>>

_canRunEvent(c, flow, sig, t) ==
    sig # "" /\ t >= MapVal(c.retry, _eventRetryKey(flow, sig), 0)

_markEventRetry(c, flow, sig, cooldown, t) ==
    IF sig = "" THEN c
    ELSE [c EXCEPT !.retry = MapSet(@, _eventRetryKey(flow, sig), t + cooldown)]

_clearEventRetry(c, flow, sig) ==
    IF sig = "" THEN c ELSE [c EXCEPT !.retry = MapDel(@, _eventRetryKey(flow, sig))]

_pruneTradeCachesById(c, tradeId) ==
    IF tradeId = "" THEN c
    ELSE [c EXCEPT !.lock = MapDel(@, tradeId),
                   !.pre = MapDel(@, tradeId),
                   !.done = SelectSeq(@, LAMBDA e : ~KeyStartsWith(e.k, tradeId)),
                   !.infl = SelectSeq(@, LAMBDA k : ~KeyStartsWith(k, tradeId)),
                   !.retry = SelectSeq(@, LAMBDA e : ~KeyStartsWith(e.k, tradeId))]

RECURSIVE PruneTerminal(_, _)
PruneTerminal(c, ids) ==
    IF ids = {} THEN c
    ELSE LET id == CHOOSE x \in ids : TRUE IN
         PruneTerminal(_pruneTradeCachesById(c, id), ids \ {id})

\* pruneSetByLimit / pruneMapByLimit: drop the oldest entries beyond the limit
pruneByLimit(s, limit) ==
    LET max == Max2(1, limit) IN
    IF Len(s) > max THEN SubSeq(s, Len(s) - max + 1, Len(s)) ELSE s

_pruneCaches(c0, terminalTradeIds, t) ==
    LET c == PruneTerminal(c0, terminalTradeIds)
        lock == SelectSeq(c.lock, LAMBDA e : e.k # "" /\ ~(t - e.v > LockMaxAge))
        done == SelectSeq(c.done, LAMBDA e : ~(t - e.v > DoneMaxAge))
        retry == SelectSeq(c.retry, LAMBDA e : ~(t - e.v > DoneMaxAge))
    IN [quoted |-> pruneByLimit(c.quoted, DedupeMax),
        accepted |-> pruneByLimit(c.accepted, DedupeMax),
        lock |-> pruneByLimit(lock, Max2(MaxTrades, PreimageMax)),
        invited |-> pruneByLimit(c.invited, DedupeMax),
        joined |-> pruneByLimit(c.joined, DedupeMax),
        done |-> pruneByLimit(done, StageMax),
        infl |-> pruneByLimit(c.infl, StageMax),
        retry |-> pruneByLimit(retry, StageMax),
        pre |-> pruneByLimit(c.pre, PreimageMax)]

----------------------------------------------------------------------------
(* One activation of the async function _tick().  pc names the await the   *)
(* activation is suspended on ("keepalive", "ident", "tool", "sub",        *)
(* "rcpt"), or "scan" while it runs synchronously between two awaits; no   *)
(* other handler runs while an activation is at "scan".                    *)
----------------------------------------------------------------------------
NoCall == [tool |-> "", trade |-> "", sig |-> "", key |-> <<>>, ev |-> 0,
           terms |-> 0, pre |-> "", again |-> FALSE, seen |-> FALSE]

\* left is actionsLeft; calls counts the runTool calls the pipelines have made
IdleTick == [pc |-> "idle", snap |-> <<>>, ctx |-> NoCtx, pipe |-> 0, idx |-> 0, left |-> 0,
             calls |-> 0, call |-> NoCall]

Slots == 1..MaxTicks
Quiet == \A i \in Slots : ticks[i].pc # "scan"
HasFreeSlot == \E i \in Slots : ticks[i].pc = "idle"
FreeSlot == CHOOSE i \in Slots : ticks[i].pc = "idle" /\ \A j \in 1..(i - 1) : ticks[j].pc # "idle"

\* scLogRead({sinceSeq, limit}) followed by _appendEvents and the _lastSeq update
ReadSince == IF lastSeq > 0 THEN lastSeq ELSE Max2(0, Len(log) - MaxEvents)
ReadEvents ==
    LET last == Min2(Len(log), ReadSince + MaxEvents)
    IN [i \in 1..(last - ReadSince) |-> ReadSince + i]
_appendEvents(evs, new) ==
    LET all == evs \o new IN
    IF Len(all) > MaxEvents THEN SubSeq(all, Len(all) - MaxEvents + 1, Len(all)) ELSE all

\* the settlement loop's view of one trade context tc
IAmMaker(tc, peer) ==
    LET makerSigner == IF EvAt(tc.terms).signer # "" THEN EvAt(tc.terms).signer
                       ELSE EvAt(tc.quote).signer
    IN peer # "" /\ makerSigner # "" /\ makerSigner = peer

IAmTaker(tc, ctx, peer) ==
    LET takerSigner == IF EvAt(tc.accept).signer # "" THEN EvAt(tc.accept).signer
                       ELSE IF EvAt(tc.quote_accept).signer # "" THEN EvAt(tc.quote_accept).signer
                       ELSE EvAt(tc.rfq).signer
    IN (peer # "" /\ takerSigner # "" /\ takerSigner = peer) \/ tc.trade_id \in ctx.myRfqTradeIds

\* a binding check that accepts every ln_payer_peer
termsBoundToLocalIdentity_AnyPayer(termsEnv, peer) == TRUE

termsBoundToLocalIdentity(termsEnv, peer) ==
    IF ~Has(termsEnv) THEN TRUE
    ELSE IF peer = "" THEN FALSE
    ELSE IF termsEnv.body.payer = "" THEN FALSE
    ELSE termsEnv.body.payer = peer

\* a binding check that accepts every sol_recipient
termsBoundToLocalSolRecipient_AnyRecipient(termsEnv, sol) == TRUE

termsBoundToLocalSolRecipient(termsEnv, sol) ==
    IF ~Has(termsEnv) THEN TRUE
    ELSE IF sol = "" THEN FALSE
    ELSE termsEnv.body.recip # "" /\ termsEnv.body.recip = sol

\* a choice of stage that pays as soon as the invoice is seen
StageFor_PayOnInvoice(tc, iAmMaker, iAmTaker) ==
    IF tc.trade_id = "" THEN ""
    ELSE IF tc.claimed # 0 \/ tc.refunded # 0 \/ tc.canceled # 0 THEN ""
    ELSE IF ~iAmMaker /\ ~iAmTaker THEN ""
    ELSE IF ~IsSwapCh(tc.channel) THEN ""
    ELSE IF iAmTaker /\ tc.terms # 0 /\ tc.accept = 0 THEN "terms_accept"
    ELSE IF iAmTaker /\ tc.terms # 0 /\ tc.invoice # 0 /\ tc.ln_paid = 0 THEN "ln_pay"
    ELSE IF iAmTaker /\ tc.terms # 0 /\ tc.ln_paid # 0 /\ tc.claimed = 0 THEN "sol_claim"
    ELSE ""

\* a choice of stage that claims as soon as the terms are accepted
StageFor_ClaimBeforePaid(tc, iAmMaker, iAmTaker) ==
    IF tc.trade_id = "" THEN ""
    ELSE IF tc.claimed # 0 \/ tc.refunded # 0 \/ tc.canceled # 0 THEN ""
    ELSE IF ~iAmMaker /\ ~iAmTaker THEN ""
    ELSE IF ~IsSwapCh(tc.channel) THEN ""
    ELSE IF iAmTaker /\ tc.terms # 0 /\ tc.accept = 0 THEN "terms_accept"
    ELSE IF iAmTaker /\ tc.terms # 0 /\ tc.invoice # 0 /\ tc.escrow # 0 /\ tc.ln_paid = 0
         THEN "ln_pay"
    ELSE IF iAmTaker /\ tc.terms # 0 /\ tc.claimed = 0 THEN "sol_claim"
    ELSE ""

\* the stage the loop body chooses for tc ("" = none)
StageFor(tc, iAmMaker, iAmTaker) ==
    IF tc.trade_id = "" THEN ""
    ELSE IF tc.claimed # 0 \/ tc.refunded # 0 \/ tc.canceled # 0 THEN ""
    ELSE IF ~iAmMaker /\ ~iAmTaker THEN ""
    ELSE IF ~IsSwapCh(tc.channel) THEN ""
    ELSE IF iAmMaker /\ tc.terms = 0 /\ tc.quote # 0 /\ tc.rfq # 0 /\ tc.quote_accept # 0
         THEN "terms_post"
    ELSE IF iAmTaker /\ tc.terms # 0 /\ tc.accept = 0 THEN "terms_accept"
    ELSE IF iAmMaker /\ tc.terms # 0 /\ tc.accept # 0 /\ tc.invoice = 0 THEN "ln_invoice"
    ELSE IF iAmMaker /\ tc.terms # 0 /\ tc.invoice # 0 /\ tc.escrow = 0 THEN "sol_escrow"
    ELSE IF iAmTaker /\ tc.terms # 0 /\ tc.invoice # 0 /\ tc.escrow # 0 /\ tc.ln_paid = 0
         THEN "ln_pay"
    ELSE IF iAmTaker /\ tc.terms # 0 /\ tc.ln_paid # 0 /\ tc.claimed = 0 THEN "sol_claim"
    ELSE ""

StageOf(tc, ctx, peer) == StageFor(tc, IAmMaker(tc, peer), IAmTaker(tc, ctx, peer))

\* the checks of terms_post before its await; FALSE = the stage throws
TermsPostArgsOk(quoteBody, rfqBody, lnPayerPeer, sol) ==
    /\ ~((IF quoteBody.btc # Null THEN quoteBody.btc ELSE rfqBody.btc) = Null)
    /\ ~((IF quoteBody.btc # Null THEN quoteBody.btc ELSE rfqBody.btc) < 1)
    /\ (IF quoteBody.usdt # Null THEN quoteBody.usdt ELSE rfqBody.usdt) # Null
    /\ UsdtMint # ""
    /\ rfqBody.recip # ""
    /\ sol # ""
    /\ quoteBody.feeColl # ""
    /\ lnPayerPeer # ""

\* the checks of sol_escrow before its await
EscrowArgsOk(tb, invBody) ==
    /\ invBody.payHash # ""
    /\ (tb.mint # "" \/ UsdtMint # "")
    /\ tb.usdt # Null
    /\ tb.recip # ""
    /\ tb.refund # ""
    /\ ~(tb.refundAfter = Null \/ tb.refundAfter < 1)
    /\ tb.feeColl # ""

\* the checks a stage makes before its first await; FALSE = the stage throws
StagePrecheck(tc, peer, sol, stage) ==
    CASE stage = "terms_post" ->
           TermsPostArgsOk(EvAt(tc.quote).body, EvAt(tc.rfq).body,
                           IF EvAt(tc.quote_accept).signer # "" THEN EvAt(tc.quote_accept).signer
                           ELSE EvAt(tc.rfq).signer, sol)
      [] stage = "terms_accept" ->
           /\ termsBoundToLocalIdentity(EvAt(tc.terms), peer)
           /\ termsBoundToLocalSolRecipient(EvAt(tc.terms), sol)
      [] stage = "ln_invoice" ->
           ~(EvAt(tc.terms).body.btc = Null \/ EvAt(tc.terms).body.btc < 1)
      [] stage = "sol_escrow" -> EscrowArgsOk(EvAt(tc.terms).body, EvAt(tc.invoice).body)
      [] stage = "ln_pay" ->
           /\ termsBoundToLocalIdentity(EvAt(tc.terms), peer)
           /\ termsBoundToLocalSolRecipient(EvAt(tc.terms), sol)
      [] stage = "sol_claim" ->
           /\ termsBoundToLocalSolRecipient(EvAt(tc.terms), sol)
           /\ (EvAt(tc.terms).body.mint # "" \/ UsdtMint # "")
      [] OTHER -> FALSE

StageCooldownOf(stage) == IF stage = "sol_claim" THEN ClaimCooldown ELSE StageCooldown

\* the queue of each pipeline: events for the negotiation pipelines, trade
\* contexts for the settlement loop
Queue(t, pipe) ==
    CASE pipe = 1 -> Reverse(SelectSeq(t.snap, LAMBDA n : envelopeKind(log[n]) = "swap.rfq"))
      [] pipe = 2 -> Reverse(t.ctx.quoteEvents)
      [] pipe = 3 -> Reverse(t.ctx.acceptEvents)
      [] pipe = 4 -> Reverse(t.ctx.inviteEvents)
      [] pipe = 5 -> SubSeq(t.ctx.swapTradeContexts, 1,
                            Min2(Len(t.ctx.swapTradeContexts), MaxTrades))
      [] OTHER -> <<>>

FlowOf(pipe) ==
    CASE pipe = 1 -> "quote_from_offer" [] pipe = 2 -> "accept_quote"
      [] pipe = 3 -> "invite_from_accept" [] pipe = 4 -> "join_invite" [] OTHER -> ""

\* does the loop body of a pipeline act on its queue item (no `continue` taken)?
QuoteEligible(t, c, e) ==
    /\ ~isLocalEvent(e)
    /\ envelopeSig(e) # "" /\ ~SetHas(c.quoted, envelopeSig(e))
    /\ _canRunEvent(c, "quote_from_offer", envelopeSig(e), now)
    /\ matchOfferForRfq(e, Deref(t.ctx.myOfferEvents), now) # Null
    /\ e.ch # ""

AcceptEligible(t, c, e) ==
    /\ ~isEventStale(e, EventMaxAge, now)
    /\ envelopeSig(e) # "" /\ ~SetHas(c.accepted, envelopeSig(e))
    /\ _canRunEvent(c, "accept_quote", envelopeSig(e), now)
    /\ envelopeTradeId(e) # "" /\ envelopeTradeId(e) \in t.ctx.myRfqTradeIds
    /\ envelopeTradeId(e) \notin t.ctx.terminalTradeIds
    /\ ~MapHas(c.lock, envelopeTradeId(e))

InviteEligible(t, c, e) ==
    /\ ~isEventStale(e, EventMaxAge, now)
    /\ envelopeSig(e) # "" /\ ~SetHas(c.invited, envelopeSig(e))
    /\ _canRunEvent(c, "invite_from_accept", envelopeSig(e), now)
    /\ MyQuoteById(t.ctx, e.body.quoteId) # 0

JoinEligible(t, c, e) ==
    /\ ~isEventStale(e, EventMaxAge, now)
    /\ envelopeSig(e) # "" /\ ~SetHas(c.joined, envelopeSig(e))
    /\ _canRunEvent(c, "join_invite", envelopeSig(e), now)
    /\ ~(envelopeTradeId(e) # "" /\ envelopeTradeId(e) \in t.ctx.terminalTradeIds)
    /\ ~(e.body.invitee # "" /\ LocalPeer # "" /\ e.body.invitee # LocalPeer)

CanRunNamed(c, tradeId, stage) == stage # "" /\ _canRunStage(c, StageKey(tradeId, stage), now)

SettleEligible(t, c, tc) == CanRunNamed(c, tc.trade_id, StageOf(tc, t.ctx, LocalPeer))

Eligible(t, c, pipe, x) ==
    CASE pipe = 1 -> QuoteEligible(t, c, log[x])
      [] pipe = 2 -> AcceptEligible(t, c, log[x])
      [] pipe = 3 -> InviteEligible(t, c, log[x])
      [] pipe = 4 -> JoinEligible(t, c, log[x])
      [] pipe = 5 -> SettleEligible(t, c, x)
      [] OTHER -> FALSE

\* first index >= from on which the pipeline acts, 0 when there is none
FirstIn(t, c, pipe, from, q) ==
    MinOf({j \in from..Len(q) : \E x \in {q[j]} : Eligible(t, c, pipe, x)})

FirstIdx(t, c, pipe, from) == FirstIn(t, c, pipe, from, Queue(t, pipe))

PickWork(first, p) == IF p = 0 THEN <<0, 0>> ELSE <<p, first[p]>>

FirstPipe(first, left) ==
    IF left <= 0 THEN <<0, 0>> ELSE PickWork(first, MinOf({p \in DOMAIN first : first[p] # 0}))

\* the next (pipe, idx) the tick acts on, <<0, 0>> when the tick is over
NextWork(t, c) ==
    FirstPipe([p \in t.pipe..5 |-> FirstIdx(t, c, p, IF p = t.pipe THEN t.idx ELSE 1)], t.left)

----------------------------------------------------------------------------
(* The tools the driver calls through runTool.  They are external to the   *)
(* driver; a call either throws (or times out) or succeeds, and a tool     *)
(* that posts an envelope has then published it on the channel, where the  *)
(* local log records it as a local event.                                  *)
TradeIds == {"T1", "T2"}
SwapChOf(tid) == IF tid = "T1" THEN "swap:T1" ELSE "swap:T2"
QuoteIdOf(tid) == IF tid = "T1" THEN "qid:T1" ELSE "qid:T2"

ToolOfPipe(pipe) ==
    CASE pipe = 1 -> "intercomswap_quote_post_from_rfq"
      [] pipe = 2 -> "intercomswap_quote_accept"
      [] pipe = 3 -> "intercomswap_swap_invite_from_accept"
      [] pipe = 4 -> "intercomswap_join_from_swap_invite"
      [] OTHER -> ""

ToolOfStage(stage) ==
    CASE stage = "terms_post" -> "intercomswap_terms_post"
      [] stage = "terms_accept" -> "intercomswap_terms_accept_from_terms"
      [] stage = "ln_invoice" -> "intercomswap_swap_ln_invoice_create_and_post"
      [] stage = "sol_escrow" -> "intercomswap_swap_sol_escrow_init_and_post"
      [] stage = "ln_pay" -> "intercomswap_swap_ln_pay_and_post_verified"
      [] stage = "sol_claim" -> "intercomswap_swap_sol_claim_and_post"
      [] OTHER -> ""

LocalEv(kind, tid, ch) ==
    [EvNil EXCEPT !.kind = kind, !.trade = tid, !.signer = LocalPeer, !.sig = "sigL",
                  !.local = TRUE, !.ch = ch]

\* the envelope a successful negotiation call (made for event ev) has published
PublishedFor(tool, tid, ev) ==
    CASE tool = "intercomswap_quote_post_from_rfq" ->
           [LocalEv("swap.quote", tid, ev.ch) EXCEPT
               !.id = QuoteIdOf(tid),
               !.body = [BodyNil EXCEPT !.btc = ev.body.btc, !.usdt = ev.body.usdt,
                                        !.feeColl = LocalSol]]
      [] tool = "intercomswap_quote_accept" ->
           [LocalEv("swap.quote_accept", tid, ev.ch) EXCEPT
               !.body = [BodyNil EXCEPT !.quoteId = ev.id]]
      [] tool = "intercomswap_swap_invite_from_accept" ->
           [LocalEv("swap.swap_invite", tid, ev.ch) EXCEPT
               !.body = [BodyNil EXCEPT !.swapCh = SwapChOf(tid), !.invitee = ev.signer]]
      [] OTHER -> EvNil

\* the terms envelope terms_post publishes from the quote, the rfq and the payer
TermsFrom(tid, ch, quoteBody, rfqBody, lnPayerPeer) ==
    [LocalEv("swap.terms", tid, ch) EXCEPT
        !.body = [BodyNil EXCEPT
            !.btc = IF quoteBody.btc # Null THEN quoteBody.btc ELSE rfqBody.btc,
            !.usdt = IF quoteBody.usdt # Null THEN quoteBody.usdt ELSE rfqBody.usdt,
            !.mint = UsdtMint, !.recip = rfqBody.recip, !.refund = LocalSol,
            !.refundAfter = now + 1, !.feeColl = quoteBody.feeColl, !.payer = lnPayerPeer]]

\* the envelope a successful settlement call (made for trade context tc) has published
PublishedBy(tool, tc) ==
    CASE tool = "intercomswap_terms_post" ->
           TermsFrom(tc.trade_id, tc.channel, EvAt(tc.quote).body, EvAt(tc.rfq).body,
                     IF EvAt(tc.quote_accept).signer # "" THEN EvAt(tc.quote_accept).signer
                     ELSE EvAt(tc.rfq).signer)
      [] tool = "intercomswap_terms_accept_from_terms" ->
           LocalEv("swap.accept", tc.trade_id, tc.channel)
      [] tool = "intercomswap_swap_ln_invoice_create_and_post" ->
           [LocalEv("swap.ln_invoice", tc.trade_id, tc.channel) EXCEPT
               !.body = [BodyNil EXCEPT !.payHash = "hash"]]
      [] tool = "intercomswap_swap_sol_escrow_init_and_post" ->
           [LocalEv("swap.sol_escrow_created", tc.trade_id, tc.channel) EXCEPT
               !.body = [BodyNil EXCEPT !.payHash = "hash"]]
      [] tool = "intercomswap_swap_ln_pay_and_post_verified" ->
           [LocalEv("swap.ln_paid", tc.trade_id, tc.channel) EXCEPT
               !.body = [BodyNil EXCEPT !.payHash = "hash", !.preimage = "preimage"]]
      [] tool = "intercomswap_swap_sol_claim_and_post" ->
           LocalEv("swap.sol_claimed", tc.trade_id, tc.channel)
      [] OTHER -> EvNil

\* the envelope the call of tick t has published (EvNil: the tool posts none)
Published(t) ==
    IF t.pipe <= 4 THEN PublishedFor(t.call.tool, t.call.trade, EvAt(t.call.ev))
    ELSE PublishedBy(t.call.tool, t.ctx.swapTradeContexts[t.idx])

PublishEv(e) ==
    /\ Has(e) => Len(log) < lim.log
    /\ log' = IF Has(e) THEN Append(log, [e EXCEPT !.ts = now]) ELSE log

Publish(t) == PublishEv(Published(t))

----------------------------------------------------------------------------
(* Actions of the environment.  A run is followed for as long as the       *)
(* driver can still act: it runs, is starting, may be started again, or an *)
(* activation of _tick() is still suspended.                               *)
Live ==
    \/ running
    \/ startsPending > 0
    \/ starts < lim.starts
    \/ \E i \in Slots : ticks[i].pc # "idle"

\* another party (or the operator) publishes an envelope; the log stamps it
EnvAppend(e) ==
    /\ Quiet
    /\ Live
    /\ e \in univ
    /\ Len(log) < lim.log
    /\ log' = Append(log, [e EXCEPT !.ts = now])
    /\ univ' = univ \ {e}
    /\ UNCHANGED <<now, lim, faults, running, timerRef, timers, tickInFlight, lastSeq, events,
                   autoQuotedRfqSig, autoAcceptedQuoteSig, autoAcceptedTradeLock,
                   autoInvitedAcceptSig, autoJoinedInviteSig, stageDone, stageInFlight,
                   stageRetryAfter, tradePreimage, nextScEnsureAt, startsPending, ticks,
                   phase, starts, okKeys, acceptOk, failAt>>
    /\ UNCHANGED <<apVars, lockVars, matchVars, bridgeVars>>

\* time passes
Advance ==
    /\ Quiet
    /\ Live
    /\ now < lim.time
    /\ now' = now + 1
    /\ UNCHANGED <<log, univ, lim, faults, running, timerRef, timers, tickInFlight, lastSeq, events,
                   autoQuotedRfqSig, autoAcceptedQuoteSig, autoAcceptedTradeLock,
                   autoInvitedAcceptSig, autoJoinedInviteSig, stageDone, stageInFlight,
                   stageRetryAfter, tradePreimage, nextScEnsureAt, startsPending, ticks,
                   phase, starts, okKeys, acceptOk, failAt>>
    /\ UNCHANGED <<apVars, lockVars, matchVars, bridgeVars>>

----------------------------------------------------------------------------
(* TradeAutoManager.start(), stop() and the entry of _tick().              *)
cacheVars == <<autoQuotedRfqSig, autoAcceptedQuoteSig, autoAcceptedTradeLock,
               autoInvitedAcceptSig, autoJoinedInviteSig, stageDone, stageInFlight,
               stageRetryAfter, tradePreimage>>

\* an external call fails only while the run's budget of failures lasts
Fault(ok) ==
    /\ ~ok => faults < lim.faults
    /\ faults' = IF ok THEN faults ELSE faults + 1

\* _tick() up to its first await, called with this.running = run and
\* this._nextScEnsureAt = ensureAt
EnterTick(run, ensureAt) ==
    IF ~run \/ tickInFlight
    THEN UNCHANGED <<ticks, tickInFlight, events, lastSeq>>
    ELSE /\ tickInFlight' = TRUE
         /\ IF now >= ensureAt
            THEN /\ ticks' = [ticks EXCEPT ![FreeSlot] = [IdleTick EXCEPT !.pc = "keepalive"]]
                 /\ UNCHANGED <<events, lastSeq>>
            ELSE /\ ticks' = [ticks EXCEPT ![FreeSlot] = [IdleTick EXCEPT !.pc = "ident"]]
                 /\ events' = _appendEvents(events, ReadEvents)
                 /\ lastSeq' = Max2(lastSeq, Len(log))

\* start() up to its await of the subscribe call
StartCall ==
    /\ Quiet
    /\ ~running
    /\ starts < lim.starts
    /\ starts' = starts + 1
    /\ lastSeq' = 0
    /\ events' = <<>>
    /\ nextScEnsureAt' = 0
    /\ SetCaches(EmptyCaches)
    /\ startsPending' = startsPending + 1
    /\ phase' = IF phase = "stopped" THEN "restarted" ELSE phase
    /\ UNCHANGED <<now, log, univ, lim, faults, running, timerRef, timers, tickInFlight, ticks, okKeys, acceptOk, failAt>>
    /\ UNCHANGED <<apVars, lockVars, matchVars, bridgeVars>>

\* the subscribe call of start() returns: start() throws, or sets the timer
\* and runs the first tick
StartResume(ok) ==
    /\ Quiet
    /\ startsPending > 0
    /\ Fault(ok)
    /\ startsPending' = startsPending - 1
    /\ IF ok
       THEN /\ HasFreeSlot
            /\ nextScEnsureAt' = now + ScEnsureInterval
            /\ running' = TRUE
            /\ timerRef' = TRUE
            /\ timers' = timers + 1
            /\ EnterTick(TRUE, now + ScEnsureInterval)
       ELSE UNCHANGED <<nextScEnsureAt, running, timerRef, timers, ticks, tickInFlight,
                        events, lastSeq>>
    /\ UNCHANGED <<now, log, univ, lim, cacheVars, phase, starts, okKeys, acceptOk, failAt>>
    /\ UNCHANGED <<apVars, lockVars, matchVars, bridgeVars>>

\* the interval timer fires and calls _tick()
TimerFire ==
    /\ Quiet
    /\ timers > 0
    /\ HasFreeSlot
    /\ EnterTick(running, nextScEnsureAt)
    /\ UNCHANGED <<now, log, univ, lim, faults, running, timerRef, timers, cacheVars, nextScEnsureAt,
                   startsPending, phase, starts, okKeys, acceptOk, failAt>>
    /\ UNCHANGED <<apVars, lockVars, matchVars, bridgeVars>>

\* a stop() that leaves the stage_done marks in place
Stop_KeepStageDone ==
    /\ Quiet
    /\ timers' = IF timerRef THEN timers - 1 ELSE timers
    /\ timerRef' = FALSE
    /\ running' = FALSE
    /\ tickInFlight' = FALSE
    /\ lastSeq' = 0
    /\ events' = <<>>
    /\ SetCaches([EmptyCaches EXCEPT !.done = stageDone])
    /\ phase' = IF phase = "new" /\ starts > 0 THEN "stopped" ELSE phase
    /\ UNCHANGED <<now, log, univ, lim, faults, nextScEnsureAt, startsPending, ticks, starts, okKeys, acceptOk, failAt>>
    /\ UNCHANGED <<apVars, lockVars, matchVars, bridgeVars>>

\* stop()
Stop ==
    /\ Quiet
    /\ timers' = IF timerRef THEN timers - 1 ELSE timers
    /\ timerRef' = FALSE
    /\ running' = FALSE
    /\ tickInFlight' = FALSE
    /\ lastSeq' = 0
    /\ events' = <<>>
    /\ SetCaches(EmptyCaches)
    /\ phase' = IF phase = "new" /\ starts > 0 THEN "stopped" ELSE phase
    /\ UNCHANGED <<now, log, univ, lim, faults, nextScEnsureAt, startsPending, ticks, starts, okKeys, acceptOk, failAt>>
    /\ UNCHANGED <<apVars, lockVars, matchVars, bridgeVars>>

----------------------------------------------------------------------------
(* _tick(): one action per resumption of the activation in slot i.         *)
histVars == <<phase, starts, okKeys, acceptOk, failAt>>

\* observation: the attempt with this key has failed now
Failed(key) == failAt' = {f \in failAt : f.key # key} \cup {[key |-> key, at |-> now]}

\* the tick's finally block
TickEnd(i) ==
    /\ ticks' = [ticks EXCEPT ![i] = IdleTick]
    /\ tickInFlight' = FALSE

\* the loop moves on to the next queue item
Cont(t, left) == [t EXCEPT !.pc = "scan", !.idx = @ + 1, !.left = left, !.call = NoCall]

StageOfCall(call) == call.key[Len(call.key)]

\* is an ln_paid envelope of the trade among the events the driver holds?
LnPaidSeen(tid) ==
    \E e \in Range(Deref(events)) : e.kind = "swap.ln_paid" /\ e.trade = tid /\ IsSwapCh(e.ch)

\* the keepalive subscribe returns or throws; the tick then reads the log
KeepaliveReturn(i) ==
    /\ Quiet
    /\ ticks[i].pc = "keepalive"
    /\ nextScEnsureAt' = now + ScEnsureInterval
    /\ events' = _appendEvents(events, ReadEvents)
    /\ lastSeq' = Max2(lastSeq, Len(log))
    /\ ticks' = [ticks EXCEPT ![i].pc = "ident"]
    /\ UNCHANGED <<now, log, univ, lim, faults, running, timerRef, timers, tickInFlight, cacheVars,
                   startsPending, histVars>>
    /\ UNCHANGED <<apVars, lockVars, matchVars, bridgeVars>>

\* sc_info and sol_signer_pubkey return (ok) or one of them throws
IdentReturn(i, ok) ==
    /\ Quiet
    /\ ticks[i].pc = "ident"
    /\ Fault(ok)
    /\ IF ok
       THEN \E activeEvents \in {SelectSeq(events,
                                     LAMBDA n : ~isEventStale(log[n], EventMaxAge, now))} :
            \E ctx \in {_buildContexts(activeEvents, LocalPeer, now)} :
               /\ SetCaches(_pruneCaches(Caches, ctx.terminalTradeIds, now))
               /\ ticks' = [ticks EXCEPT ![i] = [pc |-> "scan", snap |-> activeEvents,
                                                 ctx |-> ctx, pipe |-> 1, idx |-> 1,
                                                 left |-> ActionsPerTick, calls |-> 0,
                                                 call |-> NoCall]]
               /\ UNCHANGED tickInFlight
       ELSE /\ TickEnd(i)
            /\ UNCHANGED cacheVars
    /\ UNCHANGED <<now, log, univ, lim, running, timerRef, timers, lastSeq, events, nextScEnsureAt,
                   startsPending, histVars>>
    /\ UNCHANGED <<apVars, lockVars, matchVars, bridgeVars>>

\* a negotiation pipeline calls its tool for the event with seq n
InvokeEvent(i, t, pipe, idx, n) ==
    /\ ticks' = [ticks EXCEPT ![i] =
          [t EXCEPT !.pc = "tool", !.pipe = pipe, !.idx = idx, !.calls = @ + 1,
                    !.call = [NoCall EXCEPT
                        !.tool = ToolOfPipe(pipe), !.trade = envelopeTradeId(log[n]),
                        !.sig = envelopeSig(log[n]),
                        !.key = _eventRetryKey(FlowOf(pipe), envelopeSig(log[n])), !.ev = n,
                        !.again = _eventRetryKey(FlowOf(pipe), envelopeSig(log[n])) \in okKeys]]]
    /\ UNCHANGED <<tickInFlight, cacheVars, failAt>>

\* a preimage test that lets every string through
IsHex64_Any(v) == TRUE

\* /^[0-9a-f]{64}$/i.test(v): "preimage" stands for the 64 hex digits of a
\* preimage, "zz" for a string that is not one
IsHex64(v) == v = "preimage"

\* the call record of a stage attempt
StageCall(tc, stage, key) ==
    [NoCall EXCEPT !.tool = ToolOfStage(stage), !.trade = tc.trade_id, !.key = key,
                   !.terms = tc.terms, !.pre = MapVal(tradePreimage, tc.trade_id, ""),
                   !.again = key \in okKeys, !.seen = LnPaidSeen(tc.trade_id)]

\* the settlement loop attempts `stage` of trade context tc: the stage throws
\* before its first await, or calls a tool
AttemptStage(i, t, idx, tc, stage) ==
    /\ UNCHANGED tickInFlight
    /\ IF ~StagePrecheck(tc, LocalPeer, LocalSol, stage)
       THEN /\ SetCaches(_markStageRetry(_markStageInFlight(Caches, StageKey(tc.trade_id, stage)),
                                         StageKey(tc.trade_id, stage), StageCooldownOf(stage), now))
            /\ ticks' = [ticks EXCEPT ![i] = Cont([t EXCEPT !.pipe = 5, !.idx = idx], t.left)]
            /\ Failed(StageKey(tc.trade_id, stage))
       ELSE /\ SetCaches(_markStageInFlight(Caches, StageKey(tc.trade_id, stage)))
            /\ UNCHANGED failAt
            /\ ticks' = [ticks EXCEPT ![i] =
                  [t EXCEPT !.pipe = 5, !.idx = idx,
                            !.call = StageCall(tc, stage, StageKey(tc.trade_id, stage)),
                            !.calls = IF stage = "sol_claim" /\ ~IsHex64(MapVal(tradePreimage, tc.trade_id, ""))
                                      THEN @ ELSE @ + 1,
                            !.pc = IF stage = "sol_claim" /\ ~IsHex64(MapVal(tradePreimage, tc.trade_id, ""))
                                   THEN "rcpt" ELSE "tool"]]

\* the synchronous run of the pipelines up to the next await (or the end)
Scan(i) ==
    /\ ticks[i].pc = "scan"
    /\ \E w \in {NextWork(ticks[i], Caches)} :
         IF w = <<0, 0>>
         THEN TickEnd(i) /\ UNCHANGED <<cacheVars, failAt>>
         ELSE \E x \in {Queue(ticks[i], w[1])[w[2]]} :
                IF w[1] <= 4
                THEN InvokeEvent(i, ticks[i], w[1], w[2], x)
                ELSE \E stage \in {StageOf(x, ticks[i].ctx, LocalPeer)} :
                       AttemptStage(i, ticks[i], w[2], x, stage)
    /\ UNCHANGED <<now, log, univ, lim, faults, running, timerRef, timers, lastSeq, events,
                   nextScEnsureAt, startsPending, phase, starts, okKeys, acceptOk>>
    /\ UNCHANGED <<apVars, lockVars, matchVars, bridgeVars>>

\* the dedupe set of a negotiation pipeline gains sig
AddDedupe(c, pipe, sig) ==
    CASE pipe = 1 -> [c EXCEPT !.quoted = SetAdd(@, sig)]
      [] pipe = 2 -> [c EXCEPT !.accepted = SetAdd(@, sig)]
      [] pipe = 3 -> [c EXCEPT !.invited = SetAdd(@, sig)]
      [] pipe = 4 -> [c EXCEPT !.joined = SetAdd(@, sig)]
      [] OTHER -> c

\* code after a successful negotiation tool call, up to the next await
NegoSuccess(c, t) ==
    LET c1 == _clearEventRetry(AddDedupe(c, t.pipe, t.call.sig), FlowOf(t.pipe), t.call.sig)
        c2 == IF t.pipe = 2 THEN [c1 EXCEPT !.lock = MapSet(@, t.call.trade, now)] ELSE c1
    IN _pruneCaches(c2, {}, now)

\* the swap channel to subscribe to after invite / join ("" = none)
SubChannel(t) ==
    CASE t.pipe = 3 -> SwapChOf(t.call.trade)
      [] t.pipe = 4 -> EvAt(t.call.ev).body.swapCh
      [] OTHER -> ""

\* code after a successful settlement tool call
StageSuccess(c, t) ==
    LET c1 == IF StageOfCall(t.call) = "ln_pay"
              THEN _pruneCaches([c EXCEPT !.pre = MapSet(@, t.call.trade, "preimage")], {}, now)
              ELSE c
    IN _markStageSuccess(c1, t.call.key, now)

\* the tool call the activation awaits returns (ok) or throws / times out
ToolReturn(i, ok) ==
    LET t == ticks[i]
        c == Caches
    IN /\ Quiet
       /\ t.pc = "tool"
       /\ Fault(ok)
       /\ IF ok
          THEN /\ Publish(t)
               /\ okKeys' = okKeys \cup {t.call.key}
               /\ acceptOk' = IF t.pipe = 2 THEN [acceptOk EXCEPT ![t.call.trade] = @ + 1]
                              ELSE acceptOk
               /\ UNCHANGED failAt
               /\ IF t.pipe <= 4
                  THEN /\ SetCaches(NegoSuccess(c, t))
                       /\ ticks' = [ticks EXCEPT ![i] =
                                       IF SubChannel(t) # "" THEN [t EXCEPT !.pc = "sub"]
                                       ELSE Cont(t, t.left - 1)]
                  ELSE /\ SetCaches(StageSuccess(c, t))
                       /\ ticks' = [ticks EXCEPT ![i] = Cont(t, t.left - 1)]
          ELSE /\ SetCaches(IF t.pipe <= 4
                            THEN _markEventRetry(c, FlowOf(t.pipe), t.call.sig, EventCooldown, now)
                            ELSE _markStageRetry(c, t.call.key, StageCooldownOf(StageOfCall(t.call)), now))
               /\ ticks' = [ticks EXCEPT ![i] = Cont(t, t.left)]
               /\ Failed(t.call.key)
               /\ UNCHANGED <<log, okKeys, acceptOk>>
       /\ UNCHANGED <<now, univ, lim, running, timerRef, timers, tickInFlight, lastSeq, events,
                      nextScEnsureAt, startsPending, phase, starts>>
       /\ UNCHANGED <<apVars, lockVars, matchVars, bridgeVars>>

\* the subscribe to the swap channel after invite / join returns or throws
SubReturn(i, ok) ==
    LET t == ticks[i]
    IN /\ Quiet
       /\ t.pc = "sub"
       /\ Fault(ok)
       /\ IF ok
          THEN /\ ticks' = [ticks EXCEPT ![i] = Cont(t, t.left - 1)]
               /\ UNCHANGED <<cacheVars, failAt>>
          ELSE /\ SetCaches(_markEventRetry(Caches, FlowOf(t.pipe), t.call.sig, EventCooldown, now))
               /\ ticks' = [ticks EXCEPT ![i] = Cont(t, t.left)]
               /\ Failed(t.call.key)
       /\ UNCHANGED <<now, log, univ, lim, running, timerRef, timers, tickInFlight, lastSeq, events,
                      nextScEnsureAt, startsPending, phase, starts, okKeys, acceptOk>>
       /\ UNCHANGED <<apVars, lockVars, matchVars, bridgeVars>>

\* receipts_show returns rec.ln_preimage_hex = r, or throws (r = "throw")
RcptReturn(i, r) ==
    LET t == ticks[i]
        c == Caches
        c1 == _pruneCaches(IF IsHex64(r) THEN [c EXCEPT !.pre = MapSet(@, t.call.trade, r)] ELSE c,
                           {}, now)
    IN /\ Quiet
       /\ t.pc = "rcpt"
       /\ Fault(r = "preimage")
       /\ IF r = "throw"
          THEN /\ SetCaches(_markStageRetry(c, t.call.key, ClaimCooldown, now))
               /\ ticks' = [ticks EXCEPT ![i] = Cont(t, t.left)]
               /\ Failed(t.call.key)
          ELSE IF ~IsHex64(r)
          THEN /\ SetCaches(_markStageRetry(c1, t.call.key, ClaimCooldown, now))
               /\ ticks' = [ticks EXCEPT ![i] = Cont(t, t.left)]
               /\ Failed(t.call.key)
          ELSE /\ SetCaches(c1)
               /\ ticks' = [ticks EXCEPT ![i] = [t EXCEPT !.pc = "tool", !.call.pre = r, !.calls = @ + 1]]
               /\ UNCHANGED failAt
       /\ UNCHANGED <<now, log, univ, lim, running, timerRef, timers, tickInFlight, lastSeq, events,
                      nextScEnsureAt, startsPending, phase, starts, okKeys, acceptOk>>
       /\ UNCHANGED <<apVars, lockVars, matchVars, bridgeVars>>

----------------------------------------------------------------------------
(* The envelopes of the runs that are followed.  Trade T1 is a trade the   *)
(* local peer takes (its own RFQ), trade T2 one it makes (its own offer).  *)
Ev(kind, tid, signer, sig, ch) ==
    [EvNil EXCEPT !.kind = kind, !.trade = tid, !.signer = signer, !.sig = sig, !.ch = ch]

RfqL1 == [Ev("swap.rfq", "T1", LocalPeer, "rfq1", RfqChannel) EXCEPT
             !.local = TRUE, !.body = [BodyNil EXCEPT !.btc = 1, !.usdt = 1, !.recip = LocalSol]]
Quote1 == [Ev("swap.quote", "T1", OtherPeer, "q1", RfqChannel) EXCEPT
             !.id = "qidA", !.body = [BodyNil EXCEPT !.btc = 1, !.usdt = 1, !.feeColl = OtherSol]]
Quote2 == [Quote1 EXCEPT !.sig = "q2", !.id = "qidB"]
Invite1 == [Ev("swap.swap_invite", "T1", OtherPeer, "inv1", RfqChannel) EXCEPT
             !.body = [BodyNil EXCEPT !.swapCh = "swap:T1", !.invitee = LocalPeer]]
TermsOk == [Ev("swap.terms", "T1", OtherPeer, "terms1", "swap:T1") EXCEPT
             !.body = [BodyNil EXCEPT !.btc = 1, !.usdt = 1, !.mint = UsdtMint, !.recip = LocalSol,
                                      !.refund = OtherSol, !.refundAfter = 1, !.feeColl = OtherSol,
                                      !.payer = LocalPeer]]
TermsBadPayer == [TermsOk EXCEPT !.sig = "terms2", !.body.payer = OtherPeer]
TermsBadRecip == [TermsOk EXCEPT !.sig = "terms3", !.body.recip = OtherSol]
Invoice1 == [Ev("swap.ln_invoice", "T1", OtherPeer, "invoice1", "swap:T1") EXCEPT
             !.body = [BodyNil EXCEPT !.payHash = "hash"]]
Escrow1 == [Ev("swap.sol_escrow_created", "T1", OtherPeer, "escrow1", "swap:T1") EXCEPT
             !.body = [BodyNil EXCEPT !.payHash = "hash"]]
Cancel1 == Ev("swap.cancel", "T1", OtherPeer, "cancel1", "swap:T1")

OfferLine == [btc |-> 1, usdt |-> 1, maxPlat |-> Null, maxTrade |-> Null, maxTotal |-> Null,
              minWin |-> Null, maxWin |-> Null]
OfferL == [Ev("swap.svc_announce", "", LocalPeer, "offer", RfqChannel) EXCEPT
             !.local = TRUE, !.body = [BodyNil EXCEPT !.offers = <<OfferLine>>]]
RfqR2 == [Ev("swap.rfq", "T2", OtherPeer, "rfq2", RfqChannel) EXCEPT
             !.body = [BodyNil EXCEPT !.btc = 1, !.usdt = 1, !.recip = OtherSol]]
QuoteAccept2 == [Ev("swap.quote_accept", "T2", OtherPeer, "qa2", RfqChannel) EXCEPT
             !.body = [BodyNil EXCEPT !.quoteId = QuoteIdOf("T2")]]
\* an rfq of the other party that matches OfferL and is expired from the start
RfqExpired2 == [RfqR2 EXCEPT !.sig = "rfq2x", !.body.validUntil = 1]
Cancel2 == Ev("swap.cancel", "T2", OtherPeer, "cancel2", "swap:T2")
\* invites of the other party: one that names no invitee, one that names the
\* other party itself
InviteOpen1 == [Invite1 EXCEPT !.sig = "inv1o", !.body.invitee = ""]
InviteOther1 == [Invite1 EXCEPT !.sig = "inv1x", !.body.invitee = OtherPeer]
\* the local peer's own rfq as the log returns it without a local flag
RfqEcho1 == [RfqL1 EXCEPT !.sig = "rfq1e", !.local = FALSE]

\* one more open rfq of the other party than a tick has actions, all matching OfferL
BurstSigs == <<"b01", "b02", "b03", "b04", "b05", "b06", "b07", "b08", "b09", "b10",
               "b11", "b12", "b13">>
RfqBurst == [k \in 1..(ActionsPerTick + 1) |-> [RfqR2 EXCEPT !.trade = BurstSigs[k],
                                                            !.sig = BurstSigs[k]]]

Stamp(s, t) == [i \in 1..Len(s) |-> [s[i] EXCEPT !.ts = t]]

AcceptL1 == [LocalEv("swap.accept", "T1", "swap:T1") EXCEPT !.sig = "accept1"]
QuoteL2 == [LocalEv("swap.quote", "T2", RfqChannel) EXCEPT
             !.sig = "quote2", !.id = QuoteIdOf("T2"),
             !.body = [BodyNil EXCEPT !.btc = 1, !.usdt = 1, !.feeColl = LocalSol]]
InviteL2 == [LocalEv("swap.swap_invite", "T2", RfqChannel) EXCEPT
             !.sig = "invite2",
             !.body = [BodyNil EXCEPT !.swapCh = "swap:T2", !.invitee = OtherPeer]]

\* the runs: the log at construction, what the other party may publish, the extent
Scenarios ==
    { [log |-> Stamp(<<RfqL1>>, 1), univ |-> {TermsOk, TermsBadPayer},
       lim |-> [time |-> RetryTime, starts |-> 1, faults |-> MaxFaults, log |-> MaxLog]],
      [log |-> Stamp(<<RfqL1, TermsOk, AcceptL1>>, 1),
       univ |-> {TermsBadPayer, TermsBadRecip, Invoice1, Escrow1},
       lim |-> [time |-> ShortTime, starts |-> 1, faults |-> MaxFaults, log |-> MaxLog]],
      [log |-> Stamp(<<RfqL1, Invite1, TermsOk, AcceptL1, Invoice1, Escrow1>>, 1), univ |-> {},
       lim |-> [time |-> 1, starts |-> MaxStarts, faults |-> 0, log |-> MaxLog]],
      [log |-> Stamp(<<RfqL1>>, 1), univ |-> {Quote1, Quote2},
       lim |-> [time |-> MaxTime, starts |-> 1, faults |-> 0, log |-> MaxLog]],
      [log |-> Stamp(<<OfferL>>, 1), univ |-> {RfqR2, QuoteAccept2},
       lim |-> [time |-> ShortTime, starts |-> 1, faults |-> MaxFaults, log |-> MaxLog]],
      [log |-> Stamp(<<OfferL, RfqR2, QuoteL2, QuoteAccept2, InviteL2, Cancel2>>, 1), univ |-> {},
       lim |-> [time |-> ShortTime, starts |-> 1, faults |-> MaxFaults, log |-> MaxLog]],
      [log |-> Stamp(<<OfferL, RfqExpired2>>, 1), univ |-> {},
       lim |-> [time |-> ShortTime, starts |-> 1, faults |-> MaxFaults, log |-> MaxLog]],
      [log |-> Stamp(<<RfqL1, InviteOther1, InviteOpen1>>, 1), univ |-> {},
       lim |-> [time |-> ShortTime, starts |-> 1, faults |-> MaxFaults, log |-> MaxLog]],
      [log |-> Stamp(<<OfferL, RfqEcho1>>, 1), univ |-> {},
       lim |-> [time |-> 1, starts |-> 1, faults |-> 0, log |-> MaxLog]],
      [log |-> Stamp(<<OfferL>> \o RfqBurst, 1), univ |-> {},
       lim |-> [time |-> 1, starts |-> 1, faults |-> MaxFaults,
                log |-> 1 + 2 * Len(RfqBurst)]] }

----------------------------------------------------------------------------
(* AutopostManager (src/src/prompt/autopost.js).  Its clock counts seconds *)
(* and moves in steps of ApStep.                                           *)
ApNames == {"", "a", "b"}
RaceJobs == MaxJobs + 1    \* job objects when start() calls overlap
JobIds == 1..RaceJobs
\* an allow list that also holds a tool that is no publish tool
AllowedTools_Any == {"intercomswap_offer_post", "intercomswap_rfq_post", "intercomswap_quote_post"}

AllowedTools == {"intercomswap_offer_post", "intercomswap_rfq_post"}
NoArgs == [ttl_sec |-> Null, valid_until_unix |-> Null]
NoJob == [pc |-> "free", name |-> "", tool |-> "", intervalSec |-> 0, ttlSec |-> Null,
          validUntilUnix |-> 0, args |-> NoArgs, runs |-> 0, startedAt |-> 0,
          lastOk |-> "null", lastError |-> "null",
          timer |-> FALSE, nextFire |-> 0, queue |-> 0, inFlight |-> 0, stopped |-> FALSE]

\* clampInt(n, {min, max}) returns n (TRUE) or throws (FALSE)
clampOk(n, min, max) == n # Null /\ n >= min /\ n <= max

\* start() checks that let any validity horizon through
StartArgsOk_AnyHorizon(name, tool, interval_sec, ttl_sec, valid_until_unix, nowSec) ==
    /\ name # ""
    /\ jobs[name] = 0
    /\ tool \in AllowedTools
    /\ clampOk(interval_sec, MinIntervalSec, MaxIntervalSec)
    /\ (ttl_sec = Null \/ clampOk(ttl_sec, MinTtlSec, MaxHorizonSec))
    /\ ttl_sec # Null /\ ttl_sec # 0
    /\ (valid_until_unix = Null \/ valid_until_unix >= 1)
    /\ (IF valid_until_unix # Null THEN valid_until_unix ELSE nowSec + ttl_sec) > nowSec

\* the checks of start() before the job is built; FALSE = start() throws
StartArgsOk(name, tool, interval_sec, ttl_sec, valid_until_unix, nowSec) ==
    /\ name # ""
    /\ jobs[name] = 0
    /\ tool \in AllowedTools
    /\ clampOk(interval_sec, MinIntervalSec, MaxIntervalSec)
    /\ (ttl_sec = Null \/ clampOk(ttl_sec, MinTtlSec, MaxHorizonSec))
    /\ ttl_sec # Null /\ ttl_sec # 0
    /\ (valid_until_unix = Null \/ valid_until_unix >= 1)
    /\ \E validUntilUnix \in {IF valid_until_unix # Null THEN valid_until_unix
                             ELSE nowSec + ttl_sec} :
         /\ validUntilUnix > nowSec
         /\ validUntilUnix - nowSec >= MinHorizonSec
         /\ validUntilUnix - nowSec <= MaxHorizonSec

\* the message clampInt(n, {min, max}) throws ("" = it returns n)
clampError(n, min, max) ==
    IF n = Null THEN "must be an integer"
    ELSE IF n < min THEN "must be >= min"
    ELSE IF n > max THEN "must be <= max"
    ELSE ""

\* the error start() throws, by the order of its checks ("" = it goes on)
StartError(name, tool, interval_sec, ttl_sec, valid_until_unix, nowSec) ==
    IF name = "" THEN "name is required"
    ELSE IF jobs[name] # 0 THEN "name already exists"
    ELSE IF tool \notin AllowedTools THEN "tool not allowed"
    ELSE IF clampError(interval_sec, MinIntervalSec, MaxIntervalSec) # ""
    THEN clampError(interval_sec, MinIntervalSec, MaxIntervalSec)
    ELSE IF ttl_sec # Null /\ clampError(ttl_sec, MinTtlSec, MaxHorizonSec) # ""
    THEN clampError(ttl_sec, MinTtlSec, MaxHorizonSec)
    ELSE IF ttl_sec = Null \/ ttl_sec = 0 THEN "ttl_sec is required"
    ELSE IF valid_until_unix # Null /\ valid_until_unix < 1 THEN "must be >= min"
    ELSE LET validUntilUnix == IF valid_until_unix # Null THEN valid_until_unix
                               ELSE nowSec + ttl_sec
         IN  IF validUntilUnix <= nowSec THEN "valid_until_unix must be in the future"
             ELSE IF validUntilUnix - nowSec < MinHorizonSec THEN "validity horizon too short"
             ELSE IF validUntilUnix - nowSec > MaxHorizonSec THEN "validity horizon too long"
             ELSE ""

\* the args runOnce passes to runTool
RunArgs_AsGiven(j) == j.args

RunArgs(j) ==
    IF j.tool = "intercomswap_offer_post"
    THEN [j.args EXCEPT !.ttl_sec = Null, !.valid_until_unix = j.validUntilUnix]
    ELSE IF j.tool = "intercomswap_rfq_post"
    THEN [j.args EXCEPT !.valid_until_unix = j.validUntilUnix]
    ELSE j.args

\* a job object nothing refers to any more: no timer, no run chained or in flight
Unused(j) == j.pc = "free" \/ (j.pc = "live" /\ ~j.timer /\ j.queue = 0 /\ j.inFlight = 0)

\* a chain that starts a queued run without waiting for the run before it
ChainReady_AtOnce(j) == TRUE

\* job._queue.then(runOnce): the next run begins once the run before it has settled
ChainReady(j) == j.inFlight = 0

FreeJob == CHOOSE id \in JobIds : Unused(job[id]) /\ \A k \in JobIds : Unused(job[k]) => id <= k

\* runOnce of job id calls runTool (the calls of an earlier object in the
\* same slot are forgotten)
CallTool(id, j) ==
    apCalls' = {c \in apCalls : c.id # id \/ j.pc = "live"}
               \cup {[id |-> id, at |-> apNow, tool |-> j.tool, args |-> RunArgs(j)]}

\* an expiry branch that leaves the interval timer set
Expire_KeepTimer(j) == [j EXCEPT !.lastOk = "true", !.lastError = "expired"]

\* the expiry branch of runOnce and of the timer callback
Expire(j) == [j EXCEPT !.timer = FALSE, !.lastOk = "true", !.lastError = "expired"]

\* start() up to the await of its first runOnce, which calls runTool at once;
\* at most `slots` job objects are in use together
ApStartIn(slots, name, tool, interval_sec, ttl_sec, valid_until_unix, args) ==
    /\ StartArgsOk(name, tool, interval_sec, ttl_sec, valid_until_unix, apNow)
          => \E id \in 1..slots : Unused(job[id])
    /\ apLast' = StartError(name, tool, interval_sec, ttl_sec, valid_until_unix, apNow)
    /\ IF StartArgsOk(name, tool, interval_sec, ttl_sec, valid_until_unix, apNow)
       THEN \E j \in {[NoJob EXCEPT !.pc = "first", !.name = name, !.tool = tool,
                          !.intervalSec = interval_sec, !.ttlSec = ttl_sec,
                          !.validUntilUnix = IF valid_until_unix # Null THEN valid_until_unix
                                             ELSE apNow + ttl_sec,
                          !.args = args, !.startedAt = apNow,
                          !.inFlight = 1]} :
               /\ job' = [job EXCEPT ![FreeJob] = j]
               /\ apFixed' = [apFixed EXCEPT ![FreeJob] =
                                 IF valid_until_unix # Null THEN valid_until_unix
                                 ELSE apNow + ttl_sec]
               /\ CallTool(FreeJob, j)
       ELSE UNCHANGED <<job, apFixed, apCalls>>
    /\ UNCHANGED <<apNow, jobs>>
    /\ UNCHANGED <<driverVars, lockVars, matchVars, bridgeVars>>

ApStart(name, tool, interval_sec, ttl_sec, valid_until_unix, args) ==
    ApStartIn(MaxJobs, name, tool, interval_sec, ttl_sec, valid_until_unix, args)

\* a start() that gives the job up when its first run has failed
AfterFirst_AbortOnFail(j, ok, nowSec) ==
    IF ok THEN [j EXCEPT !.pc = "live", !.timer = TRUE, !.nextFire = nowSec + Max2(1, j.intervalSec)]
    ELSE [j EXCEPT !.pc = "live"]

\* the job once start() has gone past the await of its first run, whether
\* the run returned (ok) or threw: the interval timer is set
AfterFirst(j, ok, nowSec) ==
    [j EXCEPT !.pc = "live", !.timer = TRUE, !.nextFire = nowSec + Max2(1, j.intervalSec)]

\* runTool returns (ok) or throws.  In start() the timer and the entry are then
\* set; in a run chained on job._queue the next chained runOnce, if there is
\* one, begins at once: it finds the job expired or calls runTool
ApToolReturn(id, ok) ==
    /\ job[id].inFlight > 0
    /\ \E j \in {[job[id] EXCEPT !.inFlight = @ - 1, !.runs = @ + 1,
                     !.lastOk = IF ok THEN "true" ELSE "false",
                     !.lastError = IF ok THEN "null" ELSE "error"]} :
         IF j.pc = "first"
         THEN /\ job' = [job EXCEPT ![id] = AfterFirst(j, ok, apNow)]
              /\ jobs' = [jobs EXCEPT ![j.name] = id]
              /\ UNCHANGED apCalls
         ELSE IF j.queue = 0 \/ ~ChainReady(j)
         THEN /\ job' = [job EXCEPT ![id] = j]
              /\ UNCHANGED <<jobs, apCalls>>
         ELSE IF apNow >= j.validUntilUnix
         THEN /\ job' = [job EXCEPT ![id] = [Expire(j) EXCEPT !.queue = 0]]
              /\ jobs' = [jobs EXCEPT ![j.name] = 0]
              /\ UNCHANGED apCalls
         ELSE /\ job' = [job EXCEPT ![id] = [j EXCEPT !.queue = @ - 1, !.inFlight = @ + 1]]
              /\ CallTool(id, j)
              /\ UNCHANGED jobs
    /\ UNCHANGED <<apNow, apFixed, apLast>>
    /\ UNCHANGED <<driverVars, lockVars, matchVars, bridgeVars>>

\* the interval timer of job id fires: the callback chains a run on
\* job._queue, and the run begins at once when the chain has nothing pending
ApTimerFire(id) ==
    /\ job[id].timer
    /\ apNow >= job[id].nextFire
    /\ IF apNow >= job[id].validUntilUnix
       THEN /\ job' = [job EXCEPT ![id] = [Expire(@) EXCEPT
                                              !.nextFire = @ + Max2(1, job[id].intervalSec)]]
            /\ jobs' = [jobs EXCEPT ![job[id].name] = 0]
            /\ UNCHANGED apCalls
       ELSE IF job[id].queue = 0 /\ ChainReady(job[id])
       THEN /\ job' = [job EXCEPT ![id].inFlight = @ + 1,
                                  ![id].nextFire = @ + Max2(1, job[id].intervalSec)]
            /\ CallTool(id, job[id])
            /\ UNCHANGED jobs
       ELSE /\ job[id].queue < MaxQueue
            /\ job' = [job EXCEPT ![id].queue = @ + 1,
                                  ![id].nextFire = @ + Max2(1, job[id].intervalSec)]
            /\ UNCHANGED <<jobs, apCalls>>
    /\ UNCHANGED <<apNow, apFixed, apLast>>
    /\ UNCHANGED <<driverVars, lockVars, matchVars, bridgeVars>>

\* stop({name})
ApStop(name) ==
    /\ name # ""
    /\ jobs[name] # 0
    /\ job' = [job EXCEPT ![jobs[name]].timer = FALSE, ![jobs[name]].stopped = TRUE]
    /\ jobs' = [jobs EXCEPT ![name] = 0]
    /\ UNCHANGED <<apNow, apFixed, apCalls, apLast>>
    /\ UNCHANGED <<driverVars, lockVars, matchVars, bridgeVars>>

ApAdvance ==
    /\ apNow + ApStep <= MaxApTime
    /\ apNow' = apNow + ApStep
    /\ UNCHANGED <<jobs, job, apFixed, apCalls, apLast>>
    /\ UNCHANGED <<driverVars, lockVars, matchVars, bridgeVars>>

\* an AutopostManager after construction
ApIdle ==
    /\ apNow = 0
    /\ jobs = [n \in ApNames |-> 0]
    /\ job = [id \in JobIds |-> NoJob]
    /\ apFixed = [id \in JobIds |-> 0]
    /\ apCalls = {}
    /\ apLast = ""

----------------------------------------------------------------------------
(* TradeReceiptsStore: the listing_locks table (src/unnamed/part_003).     *)
ListingKeys == {"k1", "k2"}
Undef == "undefined"
UndefInt == -2        \* undefined, in an integer field of a patch
NoRow == [present |-> FALSE, listing_type |-> "", listing_id |-> "", trade_id |-> "",
          state |-> "", created_at |-> 0, updated_at |-> 0]

\* String(next.state || '').trim().toLowerCase()
NormState(st) ==
    CASE st = Undef -> ""
      [] st = " In_Flight " -> "in_flight"
      [] st = "FILLED" -> "filled"
      [] OTHER -> st

\* {...base, updated_at: nowMs()} with the defined fields of patch written over it
Merge(base, patch, t) ==
    [base EXCEPT !.updated_at = t,
                 !.listing_type = IF patch.listing_type # Undef THEN patch.listing_type ELSE @,
                 !.listing_id = IF patch.listing_id # Undef THEN patch.listing_id ELSE @,
                 !.trade_id = IF patch.trade_id # Undef THEN patch.trade_id ELSE @,
                 !.state = IF patch.state # Undef THEN patch.state ELSE @,
                 !.created_at = IF patch.created_at # UndefInt THEN patch.created_at ELSE @]

\* a state check that lets every state through
LockStateOk_Any(state) == TRUE

\* state !== 'in_flight' && state !== 'filled' throws
LockStateOk(state) == state \in {"in_flight", "filled"}

\* INSERT ... ON CONFLICT(listing_key) DO UPDATE SET ...: every column is
\* taken from the new row except created_at
UpsertRow(old, row) ==
    IF old.present THEN [row EXCEPT !.created_at = old.created_at] ELSE row

\* upsertListingLock(listingKey, patch); a throw leaves the table as it is
upsertListingLock(listingKey, patch) ==
    /\ \E next \in {Merge(IF listingKey # "" /\ locks[listingKey].present
                          THEN locks[listingKey]
                          ELSE [NoRow EXCEPT !.created_at = dbNow, !.updated_at = dbNow],
                          patch, dbNow)} :
         IF /\ listingKey # ""
            /\ LockStateOk(NormState(next.state))
            /\ next.listing_type # ""
            /\ next.listing_id # ""
         THEN locks' = [locks EXCEPT ![listingKey] =
                           UpsertRow(@, [next EXCEPT !.present = TRUE,
                                                     !.state = NormState(next.state)])]
         ELSE UNCHANGED locks
    /\ UNCHANGED dbNow
    /\ UNCHANGED <<driverVars, apVars, matchVars, trades, bridgeVars>>

\* deleteListingLock(listingKey)
deleteListingLock(listingKey) ==
    /\ IF listingKey # ""
       THEN locks' = [locks EXCEPT ![listingKey] = NoRow]
       ELSE UNCHANGED locks
    /\ UNCHANGED dbNow
    /\ UNCHANGED <<driverVars, apVars, matchVars, trades, bridgeVars>>

\* deleteListingLocksByTrade(tradeId)
deleteListingLocksByTrade(tradeId) ==
    /\ IF tradeId # ""
       THEN locks' = [k \in ListingKeys |->
                         IF locks[k].present /\ locks[k].trade_id = tradeId THEN NoRow
                         ELSE locks[k]]
       ELSE UNCHANGED locks
    /\ UNCHANGED dbNow
    /\ UNCHANGED <<driverVars, apVars, matchVars, trades, bridgeVars>>

\* the clock of nowMs() moves on
DbAdvance ==
    /\ dbNow < MaxDbTime
    /\ dbNow' = dbNow + 1
    /\ UNCHANGED locks
    /\ UNCHANGED <<driverVars, apVars, matchVars, trades, bridgeVars>>

----------------------------------------------------------------------------
(* TradeReceiptsStore: the trades table (src/unnamed/part_003).  A text    *)
(* column holds a string or NullText, an integer column a number or Null.  *)
TradeKeys == {"T1", "T2"}
NullText == "null"
NotFinite == -3       \* a value Number() maps to NaN
NoTrade == [present |-> FALSE, state |-> NullText, ln_preimage_hex |-> NullText,
            sol_refund_after_unix |-> Null, created_at |-> 0, updated_at |-> 0]
NoPatch == [state |-> Undef, ln_preimage_hex |-> Undef, sol_refund_after_unix |-> UndefInt,
            created_at |-> UndefInt, updated_at |-> UndefInt]

\* coerceHex32(v, label): String(v).trim().toLowerCase(), 64 hex digits or a throw
\* ("aa" stands for a 64-digit hex string, "zz" for a string that is none)
coerceHex32(v) ==
    CASE v = "AA" -> "aa"
      [] v = " aa " -> "aa"
      [] OTHER -> v
Hex32Throws(v) == v \notin {Undef, NullText, "aa", "AA", " aa "}

\* coerceInt(v): Math.trunc(Number(v)), a throw when Number(v) is not finite
coerceInt(v) == v
IntThrows(v) == v = NotFinite

\* {...base, updated_at: nowMs()} with the defined fields of patch written over it
MergeTrade(base, patch, t) ==
    [base EXCEPT !.state = IF patch.state # Undef THEN patch.state ELSE @,
                 !.ln_preimage_hex = IF patch.ln_preimage_hex # Undef
                                     THEN patch.ln_preimage_hex ELSE @,
                 !.sol_refund_after_unix = IF patch.sol_refund_after_unix # UndefInt
                                           THEN patch.sol_refund_after_unix ELSE @,
                 !.created_at = IF patch.created_at # UndefInt THEN patch.created_at ELSE @,
                 !.updated_at = IF patch.updated_at # UndefInt THEN patch.updated_at ELSE t]

\* the coercions of upsertTrade, or the insert, throw: a value that is no
\* hex string or no number, or NULL in a NOT NULL column
TradeThrows(next) ==
    \/ Hex32Throws(next.ln_preimage_hex)
    \/ IntThrows(next.sol_refund_after_unix)
    \/ IntThrows(next.created_at) \/ next.created_at = Null
    \/ IntThrows(next.updated_at) \/ next.updated_at = Null

\* the row upsertTrade writes
CoerceTrade(next) ==
    [next EXCEPT !.present = TRUE,
                 !.ln_preimage_hex = coerceHex32(@),
                 !.sol_refund_after_unix = coerceInt(@),
                 !.created_at = coerceInt(@),
                 !.updated_at = coerceInt(@)]

\* an upsert that also overwrites created_at
UpsertTradeRow_Overwrite(old, row) == row

\* INSERT ... ON CONFLICT(trade_id) DO UPDATE SET ...: every column is taken
\* from the new row except created_at
UpsertTradeRow(old, row) ==
    IF old.present THEN [row EXCEPT !.created_at = old.created_at] ELSE row

\* upsertTrade(tradeId, patch); a throw leaves the table as it is
upsertTrade(tradeId, patch) ==
    /\ \E next \in {MergeTrade(IF tradeId # "" /\ trades[tradeId].present
                               THEN trades[tradeId]
                               ELSE [NoTrade EXCEPT !.created_at = dbNow, !.updated_at = dbNow],
                               patch, dbNow)} :
         IF tradeId # "" /\ ~TradeThrows(next)
         THEN trades' = [trades EXCEPT ![tradeId] = UpsertTradeRow(@, CoerceTrade(next))]
         ELSE UNCHANGED trades
    /\ UNCHANGED <<locks, dbNow>>
    /\ UNCHANGED <<driverVars, apVars, matchVars, bridgeVars>>

\* Number.isFinite(limit) ? Math.max(1, Math.min(1000, Math.trunc(limit))) : 50
LimitOf(limit) == IF limit = NotFinite THEN 50 ELSE Max2(1, Min2(1000, limit))
\* Number.isFinite(offset) ? Math.max(0, Math.trunc(offset)) : 0
OffsetOf(offset) == IF offset = NotFinite THEN 0 ELSE Max2(0, offset)
\* String(state || '').trim() || dflt
StateOf(state, dflt) ==
    CASE state \in {Undef, "", " "} -> dflt
      [] state = " escrow " -> "escrow"
      [] OTHER -> state

\* a WHERE clause that leaves out the test of ln_preimage_hex
ClaimRow_AnyPreimage(r, st) == r.present /\ r.state = st

\* WHERE state = ? AND ln_preimage_hex IS NOT NULL
ClaimRow(r, st) == r.present /\ r.state = st /\ r.ln_preimage_hex # NullText

\* a WHERE clause that takes the rows whose refund time is still to come
RefundRow_NotYet(r, st, t) ==
    r.present /\ r.state = st /\ r.sol_refund_after_unix # Null

\* WHERE state = ? AND sol_refund_after_unix IS NOT NULL AND sol_refund_after_unix <= ?
RefundRow(r, st, t) ==
    r.present /\ r.state = st /\ r.sol_refund_after_unix # Null /\ r.sol_refund_after_unix <= t

\* ORDER BY updated_at DESC: the orders SQLite may give the rows of S (rows
\* with equal updated_at come in any order)
OrderedDesc(S) ==
    {s \in [1..Cardinality(S) -> S] :
        /\ \A i, j \in 1..Cardinality(S) : i # j => s[i] # s[j]
        /\ \A i, j \in 1..Cardinality(S) :
              i < j => trades[s[i]].updated_at >= trades[s[j]].updated_at}

\* LIMIT n OFFSET off
Page(s, n, off) == SubSeq(s, off + 1, Min2(Len(s), off + n))

\* listOpenClaims({limit, offset, state}): the results it may return, each the
\* sequence of the trade_ids of its rows
listOpenClaims(limit, offset, state) ==
    {Page(s, LimitOf(limit), OffsetOf(offset)) :
        s \in OrderedDesc({k \in TradeKeys : ClaimRow(trades[k], StateOf(state, "ln_paid"))})}

\* listOpenRefunds({nowUnix, limit, offset, state})
listOpenRefunds(nowUnix, limit, offset, state) ==
    {Page(s, LimitOf(limit), OffsetOf(offset)) :
        s \in OrderedDesc({k \in TradeKeys :
                              RefundRow(trades[k], StateOf(state, "escrow"),
                                        IF nowUnix = Null THEN dbNow ELSE coerceInt(nowUnix))})}

\* an empty listing_locks table and an empty trades table
LocksIdle ==
    /\ locks = [k \in ListingKeys |-> NoRow] /\ dbNow = 0
    /\ trades = [k \in TradeKeys |-> NoTrade]

----------------------------------------------------------------------------
(* ScBridgeClient (src/src/sc-bridge/client.js).  ws is "connecting" while *)
(* the socket has the handlers connect() sets first, "ready" once it has   *)
(* the handlers set after the await.                                       *)
RpcIds == 1..MaxRpc
NoRpc == [st |-> "none", err |-> ""]
Rejected(err) == [st |-> "rejected", err |-> err]

\* resolve / reject of a promise: a settled promise stays as it is
Settle(r, id, v) == IF r[id].st = "pending" THEN [r EXCEPT ![id] = v] ELSE r

\* a reset that drops the entries of the pending RPCs without rejecting them
_rejectAllPending_Drop(r, pend, err) == r

\* _rejectAllPending(err): reject is called for every entry of the table
_rejectAllPending(r, pend, err) ==
    [id \in RpcIds |-> IF id \in pend THEN Settle(r, id, Rejected(err))[id] ELSE r[id]]

\* _resetConnection(err), given the table it finds and the promise of the
\* RPC that calls it (0 = none), which the caller rejects next
_resetConnection(pend, own, err) ==
    /\ rpcs' = IF own = 0 THEN _rejectAllPending(rpcs, pend, err)
               ELSE Settle(_rejectAllPending(rpcs, pend, err), own, Rejected(err))
    /\ _pending' = {}
    /\ rpcTimers' = rpcTimers \ (pend \cup {own})
    /\ ws' = "null"

\* connect()
BrConnect ==
    /\ ws = "null"
    /\ ready # "pending"
    /\ ws' = "connecting"
    /\ ready' = "pending"
    /\ UNCHANGED <<_pending, _nextId, rpcs, rpcTimers>>
    /\ UNCHANGED <<driverVars, apVars, lockVars, matchVars>>

\* hello without auth, or auth_ok, arrives: connect() goes past its await
BrReady ==
    /\ ws = "connecting"
    /\ ready = "pending"
    /\ ws' = "ready"
    /\ ready' = "resolved"
    /\ UNCHANGED <<_pending, _nextId, rpcs, rpcTimers>>
    /\ UNCHANGED <<driverVars, apVars, lockVars, matchVars>>

\* the handlers connect() sets first: socket error, close, hello asking for
\* auth without a token, or an Unauthorized error (its handler stays set
\* after the await)
BrConnectFail(err) ==
    /\ ws = "connecting" \/ (ws = "ready" /\ err = "SC-Bridge unauthorized")
    /\ _resetConnection(_pending, 0, err)
    /\ ready' = IF ready = "pending" THEN "rejected" ELSE ready
    /\ UNCHANGED _nextId
    /\ UNCHANGED <<driverVars, apVars, lockVars, matchVars>>

\* the connect timer fires
BrConnectTimeout ==
    /\ ready = "pending"
    /\ ready' = "rejected"
    /\ UNCHANGED <<ws, _pending, _nextId, rpcs, rpcTimers>>
    /\ UNCHANGED <<driverVars, apVars, lockVars, matchVars>>

\* onclose / onerror of a ready socket
BrDrop(err) ==
    /\ ws = "ready"
    /\ _resetConnection(_pending, 0, err)
    /\ UNCHANGED <<ready, _nextId>>
    /\ UNCHANGED <<driverVars, apVars, lockVars, matchVars>>

\* close(): the socket's close() may call onclose at once (fired) or not
BrClose(fired) ==
    /\ ws # "null"
    /\ _resetConnection(_pending, 0, "SC-Bridge closed")
    /\ ready' = IF ready = "pending" /\ ws = "connecting" /\ fired THEN "rejected" ELSE ready
    /\ UNCHANGED _nextId
    /\ UNCHANGED <<driverVars, apVars, lockVars, matchVars>>

\* _rpc(type, payload): ws.send returns (sent) or throws
BrRpc(sent) ==
    /\ ws # "null"
    /\ _nextId <= MaxRpc
    /\ _nextId' = _nextId + 1
    /\ IF sent
       THEN /\ rpcs' = [rpcs EXCEPT ![_nextId] = [st |-> "pending", err |-> ""]]
            /\ _pending' = _pending \cup {_nextId}
            /\ rpcTimers' = rpcTimers \cup {_nextId}
            /\ UNCHANGED ws
       ELSE \E r \in {[rpcs EXCEPT ![_nextId] = [st |-> "pending", err |-> ""]]} :
               /\ rpcs' = Settle(_rejectAllPending(r, _pending, "send failed"), _nextId,
                                 Rejected("send failed"))
               /\ _pending' = {}
               /\ rpcTimers' = rpcTimers \ _pending
               /\ ws' = "null"
    /\ UNCHANGED ready
    /\ UNCHANGED <<driverVars, apVars, lockVars, matchVars>>

\* a reply handler that resolves the RPC and leaves its entry in the table
BrReply_KeepEntry(id) ==
    /\ ws # "null"
    /\ id \in _pending
    /\ _pending' = _pending
    /\ rpcTimers' = rpcTimers \ {id}
    /\ rpcs' = Settle(rpcs, id, [st |-> "resolved", err |-> ""])
    /\ UNCHANGED <<ws, ready, _nextId>>
    /\ UNCHANGED <<driverVars, apVars, lockVars, matchVars>>

\* _handleMessage(msg) for a message whose id has an entry in the table
BrReply(id) ==
    /\ ws # "null"
    /\ id \in _pending
    /\ _pending' = _pending \ {id}
    /\ rpcTimers' = rpcTimers \ {id}
    /\ rpcs' = Settle(rpcs, id, [st |-> "resolved", err |-> ""])
    /\ UNCHANGED <<ws, ready, _nextId>>
    /\ UNCHANGED <<driverVars, apVars, lockVars, matchVars>>

\* the timeout timer of RPC id fires
BrTimeout(id) ==
    /\ id \in rpcTimers
    /\ _resetConnection(_pending \ {id}, id, "SC-Bridge rpc timeout")
    /\ UNCHANGED <<ready, _nextId>>
    /\ UNCHANGED <<driverVars, apVars, lockVars, matchVars>>

\* a ScBridgeClient after construction
BridgeIdle ==
    /\ ws = "null" /\ ready = "none"
    /\ _pending = {} /\ _nextId = 1
    /\ rpcs = [id \in RpcIds |-> NoRpc]
    /\ rpcTimers = {}

(* matchOfferForRfq called on its own: the arguments are drawn from the    *)
(* envelopes below, the call returns Null or the refund window.            *)
----------------------------------------------------------------------------
MatchIdle ==
    /\ mArgs = [rfqEvt |-> EvNil, myOfferEvents |-> <<>>, nowSec |-> 0]
    /\ mRet = [done |-> FALSE, val |-> Null]

MatchCall ==
    /\ ~mRet.done
    /\ mRet' = [done |-> TRUE,
                val |-> matchOfferForRfq(mArgs.rfqEvt, mArgs.myOfferEvents, mArgs.nowSec)]
    /\ UNCHANGED <<mArgs, driverVars, apVars, lockVars, bridgeVars>>

----------------------------------------------------------------------------
\* a TradeAutoManager after construction
InitDriver ==
    /\ running = FALSE /\ timerRef = FALSE /\ timers = 0 /\ tickInFlight = FALSE
    /\ lastSeq = 0 /\ events = <<>>
    /\ autoQuotedRfqSig = <<>> /\ autoAcceptedQuoteSig = <<>> /\ autoAcceptedTradeLock = <<>>
    /\ autoInvitedAcceptSig = <<>> /\ autoJoinedInviteSig = <<>>
    /\ stageDone = <<>> /\ stageInFlight = <<>> /\ stageRetryAfter = <<>> /\ tradePreimage = <<>>
    /\ nextScEnsureAt = 0
    /\ startsPending = 0
    /\ ticks = [i \in Slots |-> IdleTick]
    /\ phase = "new" /\ starts = 0 /\ okKeys = {} /\ acceptOk = [t \in TradeIds |-> 0]
    /\ failAt = {}

Init ==
    /\ now = 1
    /\ \E sc \in Scenarios : log = sc.log /\ univ = sc.univ /\ lim = sc.lim
    /\ faults = 0
    /\ InitDriver
    /\ ApIdle
    /\ LocksIdle
    /\ MatchIdle
    /\ BridgeIdle

Next ==
    \/ \E e \in univ : EnvAppend(e)
    \/ Advance
    \/ StartCall
    \/ \E ok \in BOOLEAN : StartResume(ok)
    \/ TimerFire
    \/ Stop
    \/ \E i \in Slots : KeepaliveReturn(i)
    \/ \E i \in Slots, ok \in BOOLEAN : IdentReturn(i, ok)
    \/ \E i \in Slots : Scan(i)
    \/ \E i \in Slots, ok \in BOOLEAN : ToolReturn(i, ok)
    \/ \E i \in Slots, ok \in BOOLEAN : SubReturn(i, ok)
    \/ \E i \in Slots, r \in {"preimage", "", "zz", "throw"} : RcptReturn(i, r)

Spec == Init /\ [][Next]_vars

\* the driver at rest, for the runs of the other components
DriverIdle ==
    /\ now = 1 /\ log = <<>> /\ univ = {}
    /\ lim = [time |-> 0, starts |-> 0, faults |-> 0, log |-> 0]
    /\ faults = 0
    /\ InitDriver

ApArgs == {NoArgs, [ttl_sec |-> 60, valid_until_unix |-> 90]}

InitAutopost == DriverIdle /\ ApIdle /\ LocksIdle /\ MatchIdle /\ BridgeIdle

\* the start() calls made: the calls that pass every check at time 0, and the
\* calls refused for their name, their tool or a missing ttl_sec
ApGoodCalls ==
    [name : ApNames \ {""}, tool : {"intercomswap_offer_post", "intercomswap_rfq_post"},
     interval_sec : {ApStep}, ttl_sec : {10}, valid_until_unix : {Null, 20}, args : ApArgs]
ApBase == [name |-> "a", tool |-> "intercomswap_offer_post", interval_sec |-> ApStep,
           ttl_sec |-> 10, valid_until_unix |-> Null, args |-> NoArgs]
ApBadCalls ==
    {[ApBase EXCEPT !.name = ""], [ApBase EXCEPT !.tool = "intercomswap_quote_post"],
     [ApBase EXCEPT !.ttl_sec = Null]}
ApStartCalls == ApGoodCalls \cup ApBadCalls

NextAutopost ==
    \/ \E c \in ApStartCalls :
          ApStart(c.name, c.tool, c.interval_sec, c.ttl_sec, c.valid_until_unix, c.args)
    \/ \E id \in JobIds, ok \in BOOLEAN : ApToolReturn(id, ok)
    \/ \E id \in JobIds : ApTimerFire(id)
    \/ \E name \in ApNames : ApStop(name)
    \/ ApAdvance

SpecAutopost == InitAutopost /\ [][NextAutopost]_vars

\* the validation of start(): calls over the values around every limit of
\* ttl_sec and valid_until_unix, made at every clock value,
\* with and without a job registered
ValidityCalls ==
    [name : {"a"}, tool : {"intercomswap_offer_post"},
     interval_sec : {ApStep},
     ttl_sec : {Null, MinTtlSec - 1, MinTtlSec, MaxHorizonSec + 1},
     valid_until_unix : {Null, MinHorizonSec - 1, MinHorizonSec, MaxApTime + MinHorizonSec,
                         MaxHorizonSec + MaxApTime + 1},
     args : {NoArgs}]

NextValidity ==
    \/ \E c \in ValidityCalls :
          ApStart(c.name, c.tool, c.interval_sec, c.ttl_sec, c.valid_until_unix, c.args)
    \/ \E id \in JobIds, ok \in BOOLEAN : ApToolReturn(id, ok)
    \/ \E id \in JobIds : ApTimerFire(id)
    \/ \E name \in ApNames : ApStop(name)
    \/ ApAdvance

SpecValidity == InitAutopost /\ [][NextValidity]_vars

\* start() calls with one name that may overlap: a second call is made
\* while the first awaits its first run
NextRace ==
    \/ ApStartIn(RaceJobs, "a", "intercomswap_offer_post", ApStep, MinTtlSec, Null, NoArgs)
    \/ \E id \in JobIds, ok \in BOOLEAN : ApToolReturn(id, ok)
    \/ \E id \in JobIds : ApTimerFire(id)
    \/ ApStop("a")
    \/ ApAdvance

SpecRace == InitAutopost /\ [][NextRace]_vars

\* the patches upsertListingLock is given: the full rows the driver writes,
\* updates of one field, rows that lack a field, and a patch that names
\* created_at
NoLockPatch == [listing_type |-> Undef, listing_id |-> Undef, trade_id |-> Undef,
                state |-> Undef, created_at |-> UndefInt]
LockFull == [NoLockPatch EXCEPT !.listing_type = "offer", !.listing_id = "L1",
                                !.trade_id = "A", !.state = "in_flight"]
LockPatches ==
    {NoLockPatch, LockFull,
     [LockFull EXCEPT !.trade_id = "B"],
     [LockFull EXCEPT !.state = "FILLED"],
     [LockFull EXCEPT !.state = "open"],
     [LockFull EXCEPT !.state = Undef],
     [LockFull EXCEPT !.listing_type = Undef],
     [LockFull EXCEPT !.listing_id = Undef],
     [LockFull EXCEPT !.trade_id = Undef],
     [LockFull EXCEPT !.created_at = 7],
     [NoLockPatch EXCEPT !.trade_id = "A"],
     [NoLockPatch EXCEPT !.trade_id = "B"],
     [NoLockPatch EXCEPT !.state = " In_Flight "],
     [NoLockPatch EXCEPT !.state = "FILLED"],
     [NoLockPatch EXCEPT !.state = "open"],
     [NoLockPatch EXCEPT !.created_at = 7, !.state = "filled"]}

InitLocks == DriverIdle /\ ApIdle /\ LocksIdle /\ MatchIdle /\ BridgeIdle

NextLocks ==
    \/ \E k \in ListingKeys \cup {""}, patch \in LockPatches : upsertListingLock(k, patch)
    \/ \E k \in ListingKeys \cup {""} : deleteListingLock(k)
    \/ \E tid \in {"", "A", "B"} : deleteListingLocksByTrade(tid)
    \/ DbAdvance

SpecLocks == InitLocks /\ [][NextLocks]_vars

\* the patches upsertTrade is given: the empty patch, the patches the swap
\* stages write, and patches that clear a field, carry the timestamps or throw
TradePatches ==
    {NoPatch,
     [NoPatch EXCEPT !.state = "ln_paid", !.ln_preimage_hex = "AA"],
     [NoPatch EXCEPT !.state = "ln_paid"],
     [NoPatch EXCEPT !.state = "escrow", !.sol_refund_after_unix = 1],
     [NoPatch EXCEPT !.state = "escrow"],
     [NoPatch EXCEPT !.state = NullText],
     [NoPatch EXCEPT !.ln_preimage_hex = " aa "],
     [NoPatch EXCEPT !.ln_preimage_hex = NullText],
     [NoPatch EXCEPT !.ln_preimage_hex = "zz"],
     [NoPatch EXCEPT !.sol_refund_after_unix = Null],
     [NoPatch EXCEPT !.sol_refund_after_unix = NotFinite],
     [NoPatch EXCEPT !.created_at = 7],
     [NoPatch EXCEPT !.updated_at = 0]}

NextTrades ==
    \/ \E k \in TradeKeys \cup {""}, patch \in TradePatches : upsertTrade(k, patch)
    \/ DbAdvance

SpecTrades == InitLocks /\ [][NextTrades]_vars

BridgeErrors ==
    {"SC-Bridge socket error", "SC-Bridge closed before ready",
     "SC-Bridge requires auth but no token provided", "SC-Bridge unauthorized"}

NextBridge ==
    \/ BrConnect
    \/ BrReady
    \/ \E err \in BridgeErrors : BrConnectFail(err)
    \/ BrConnectTimeout
    \/ \E err \in {"SC-Bridge closed", "SC-Bridge socket error"} : BrDrop(err)
    \/ \E fired \in BOOLEAN : BrClose(fired)
    \/ \E sent \in BOOLEAN : BrRpc(sent)
    \/ \E id \in RpcIds : BrReply(id)
    \/ \E id \in RpcIds : BrTimeout(id)

SpecBridge == InitLocks /\ [][NextBridge]_vars

\* the same client where a timer that stays set fires in the end (setTimeout)
SpecBridgeLive == SpecBridge /\ \A id \in RpcIds : WF_vars(BrTimeout(id))

\* the rfq bodies, offer lines and offers a call of the matcher is given
MatchRfqBodies ==
    { [BodyNil EXCEPT !.btc = b, !.usdt = u, !.maxPlat = p, !.maxTrade = t, !.maxTotal = a,
                      !.minWin = lo, !.maxWin = hi] :
        b \in {0, 1}, u \in {Null, 1}, p \in {Null, 100}, t \in {Null, 100}, a \in {Null, 100},
        lo \in {Null, 0, 7200, 300000}, hi \in {Null, 7200, 700000} }

MatchLines ==
    [btc : {1, 2}, usdt : {1, 2}, maxPlat : {Null, 100}, maxTrade : {Null}, maxTotal : {Null, 100},
     minWin : {Null, 300000}, maxWin : {Null, 7200, 700000}]

MatchOffer(line, validUntil, rfqChannels) ==
    [OfferL EXCEPT !.body = [BodyNil EXCEPT !.offers = <<line>>, !.validUntil = validUntil,
                                            !.rfqChannels = rfqChannels]]

MatchOffers ==
    { MatchOffer(line, u[1], u[2]) :
        line \in MatchLines,
        u \in {<<Null, <<>>>>, <<MatchNow, <<>>>>, <<MatchNow + 1, <<RfqChannel>>>>,
               <<Null, <<"other">>>>} }

InitMatch ==
    /\ DriverIdle /\ ApIdle /\ LocksIdle /\ BridgeIdle
    /\ \E body \in MatchRfqBodies, first \in MatchOffers, rest \in {<<>>, <<OfferL>>} :
          mArgs = [rfqEvt |-> [RfqR2 EXCEPT !.body = body],
                   myOfferEvents |-> <<first>> \o rest,
                   nowSec |-> MatchNow]
    /\ mRet = [done |-> FALSE, val |-> Null]

NextMatch == MatchCall

SpecMatch == InitMatch /\ [][NextMatch]_vars

\* The stage caches on their own: the marks a tick sets for the stages of
\* trades whose ids share a prefix, an event-retry mark, and the pruning of
\* one trade.
PruneTrades == {"T1", "T1:x"}
PruneStages == {"sol_claim"}
restVars == <<now, log, univ, lim, faults, running, timerRef, timers, tickInFlight, lastSeq,
              events, nextScEnsureAt, startsPending, ticks, histVars>>

PrMark(c) ==
    /\ c # Caches
    /\ SetCaches(c)
    /\ UNCHANGED <<restVars, apVars, lockVars, matchVars, bridgeVars>>

PrPrune(tradeId) ==
    /\ SetCaches(_pruneTradeCachesById(Caches, tradeId))
    /\ UNCHANGED <<restVars, apVars, lockVars, matchVars, bridgeVars>>

NextPrune ==
    \/ \E tid \in PruneTrades, stage \in PruneStages :
          \/ PrMark(_markStageInFlight(Caches, StageKey(tid, stage)))
          \/ PrMark(_markStageSuccess(Caches, StageKey(tid, stage), now))
          \/ PrMark(_markStageRetry(Caches, StageKey(tid, stage), StageCooldownOf(stage), now))
    \/ PrMark(_markEventRetry(Caches, "quote_from_offer", "rfq1", EventCooldown, now))
    \/ \E tid \in PruneTrades \cup {"", "T2"} : PrPrune(tid)

SpecPrune == InitAutopost /\ [][NextPrune]_vars

\* The retry marks over many ticks, with the limits the driver runs with:
\* a tick prunes the caches when it begins, the tool call of a quote fails
\* for one RFQ after another of the tick's window, each with a signature of
\* its own, and the tick ends.  faults counts the failed calls.
CapTickBegin ==
    /\ \A i \in Slots : ticks[i].pc = "idle"
    /\ ticks' = [ticks EXCEPT ![1] = [IdleTick EXCEPT !.pc = "scan"]]
    /\ tickInFlight' = TRUE
    /\ SetCaches(_pruneCaches(Caches, {}, now))
    /\ UNCHANGED <<now, log, univ, lim, faults, running, timerRef, timers, lastSeq, events,
                   nextScEnsureAt, startsPending, histVars>>
    /\ UNCHANGED <<apVars, lockVars, matchVars, bridgeVars>>

CapFail ==
    /\ ticks[1].pc = "scan"
    /\ ticks[1].calls < MaxEvents
    /\ faults <= StageMax
    /\ faults' = faults + 1
    /\ ticks' = [ticks EXCEPT ![1].calls = @ + 1]
    /\ SetCaches(_markEventRetry(Caches, "quote_from_offer", ToString(faults + 1),
                                 EventCooldown, now))
    /\ UNCHANGED <<now, log, univ, lim, running, timerRef, timers, tickInFlight, lastSeq, events,
                   nextScEnsureAt, startsPending, histVars>>
    /\ UNCHANGED <<apVars, lockVars, matchVars, bridgeVars>>

CapTickEnd ==
    /\ ticks[1].pc = "scan"
    /\ TickEnd(1)
    /\ UNCHANGED <<now, log, univ, lim, faults, running, timerRef, timers, lastSeq, events,
                   nextScEnsureAt, startsPending, histVars, cacheVars>>
    /\ UNCHANGED <<apVars, lockVars, matchVars, bridgeVars>>

NextCaps == CapTickBegin \/ CapFail \/ CapTickEnd

SpecCaps == InitAutopost /\ [][NextCaps]_vars

----------------------------------------------------------------------------
(* Properties of the settlement driver.                                    *)

\* activation i has called the tool and awaits its result
Invoked(i, tool) == ticks[i].pc = "tool" /\ ticks[i].call.tool = tool

\* the trade context the settlement loop of activation i is working on
TcOfTick(i) == ticks[i].ctx.swapTradeContexts[ticks[i].idx]

\* C1: ln_pay is never invoked for a trade whose terms name another
\* ln_payer_peer than the local peer or another sol_recipient than the local
\* signer, and sol_claim never for terms with another sol_recipient.
C1_BindingEnforced ==
    \A i \in Slots :
        /\ Invoked(i, "intercomswap_swap_ln_pay_and_post_verified") =>
              /\ EvAt(ticks[i].call.terms).body.payer = LocalPeer
              /\ EvAt(ticks[i].call.terms).body.recip = LocalSol
        /\ Invoked(i, "intercomswap_swap_sol_claim_and_post") =>
              EvAt(ticks[i].call.terms).body.recip = LocalSol

\* the settlement loop met terms bound to another recipient at stage ln_pay,
\* threw before calling the tool and left a retry time
C1_Witness ==
    \E i \in Slots :
        /\ ticks[i].pc = "scan" /\ ticks[i].pipe = 5 /\ ticks[i].idx > 1
        /\ \E tc \in Range(ticks[i].ctx.swapTradeContexts) :
              /\ tc.terms # 0 /\ tc.invoice # 0 /\ tc.escrow # 0 /\ tc.ln_paid = 0
              /\ EvAt(tc.terms).body.recip # LocalSol
              /\ MapVal(stageRetryAfter, StageKey(tc.trade_id, "ln_pay"), 0) > now

\* C2: ln_pay is invoked only by the taker and only when the tick's trade
\* context holds terms, ln_invoice and sol_escrow_created and no ln_paid.
C2_PayOnlyAfterEscrow ==
    \A i \in Slots :
        Invoked(i, "intercomswap_swap_ln_pay_and_post_verified") =>
            /\ IAmTaker(TcOfTick(i), ticks[i].ctx, LocalPeer)
            /\ TcOfTick(i).terms # 0
            /\ TcOfTick(i).invoice # 0
            /\ TcOfTick(i).escrow # 0
            /\ TcOfTick(i).ln_paid = 0

\* ln_pay has been called for a trade the local peer takes
C2_Witness ==
    \E i \in Slots :
        /\ Invoked(i, "intercomswap_swap_ln_pay_and_post_verified")
        /\ ticks[i].call.trade \in ticks[i].ctx.myRfqTradeIds
        /\ TcOfTick(i).escrow # 0

\* C3: a stage tool that succeeded for a trade, or a negotiation event that
\* was acted on successfully, is never invoked / acted on again.
C3_NoSecondAction ==
    \A i \in Slots : ticks[i].pc \in {"tool", "sub"} => ~ticks[i].call.again

\* C4: after stop() and a fresh start(), ln_pay is never invoked for a trade
\* whose ln_paid envelope is among the events the driver has re-read.
C4_NoRepayAfterRestart ==
    \A i \in Slots :
        (phase = "restarted" /\ Invoked(i, "intercomswap_swap_ln_pay_and_post_verified"))
            => ~ticks[i].call.seen

\* C5: at most one quote_accept succeeds for a local RFQ trade that is not
\* terminal (stated for the runs in which stop() is never called).
C5_SingleAccept ==
    \A tid \in TradeIds :
        (/\ phase = "new"
         /\ ~\E n \in 1..Len(log) : log[n].trade = tid /\ log[n].kind \in TerminalKinds)
            => acceptOk[tid] <= 1

\* C6: at most one activation of _tick() is between its entry and its
\* finally block.
C6_OneTickBody == Cardinality({i \in Slots : ticks[i].pc # "idle"}) <= 1

\* the taker's next step is an attempt of terms_accept for terms tc.terms
\* that name another ln_payer_peer
BadPayerAttempt(i, w, tc) ==
    /\ ticks[i].pc = "scan"
    /\ w[1] = 5
    /\ StageOf(tc, ticks[i].ctx, LocalPeer) = "terms_accept"
    /\ IAmTaker(tc, ticks[i].ctx, LocalPeer)
    /\ EvAt(tc.terms).body.payer # LocalPeer

\* C9: with terms that name another ln_payer_peer, an attempt of
\* terms_accept calls no tool, publishes nothing, does not mark the stage
\* done and leaves a retry time in the future; the accept tool is never
\* called for such terms.
C9_BadPayerNeverAccepted ==
    /\ [](\A i \in Slots :
            Invoked(i, "intercomswap_terms_accept_from_terms") =>
                EvAt(ticks[i].call.terms).body.payer = LocalPeer)
    /\ [][\A i \in Slots :
          \A w \in {IF ticks[i].pc = "scan" THEN NextWork(ticks[i], Caches) ELSE <<0, 0>>} :
          \A tc \in {IF w[1] = 5 THEN Queue(ticks[i], 5)[w[2]] ELSE 0} :
            BadPayerAttempt(i, w, tc) =>
                /\ ticks'[i].pc = "scan"
                /\ log' = log
                /\ ~MapHas(stageDone', StageKey(tc.trade_id, "terms_accept"))
                /\ MapVal(stageRetryAfter', StageKey(tc.trade_id, "terms_accept"), 0) > now']_vars

\* an attempt of terms_accept for terms that name another payer has thrown
C9_Witness ==
    \E i \in Slots :
        /\ ticks[i].pc = "scan" /\ ticks[i].pipe = 5 /\ ticks[i].idx > 1
        /\ \E tc \in Range(ticks[i].ctx.swapTradeContexts) :
              /\ tc.terms # 0 /\ tc.accept = 0
              /\ EvAt(tc.terms).body.payer # LocalPeer
              /\ MapVal(stageRetryAfter, StageKey(tc.trade_id, "terms_accept"), 0) > now
              /\ ~MapHas(stageDone, StageKey(tc.trade_id, "terms_accept"))

\* C10: no tool of any pipeline is invoked for a trade that is terminal in
\* the tick's context.
C10_NoWorkForTerminal ==
    \A i \in Slots :
        ticks[i].pc \in {"tool", "sub", "rcpt"} =>
            ticks[i].call.trade \notin ticks[i].ctx.terminalTradeIds

----------------------------------------------------------------------------
(* Properties of the autopost manager and of the listing locks.            *)

\* C7: every runTool invocation made for an autopost job, the first run and
\* the timer runs alike, carries the valid_until_unix fixed when the job was
\* started (the given value, else start time + ttl_sec), never a later one.
C7_ValidityFixed ==
    \A c \in apCalls : c.args.valid_until_unix = apFixed[c.id]

\* a timer run of a job whose args name a later valid_until_unix has called
\* the tool after the first run
C7_Witness ==
    \E c \in apCalls :
        /\ c.at > job[c.id].startedAt
        /\ job[c.id].runs >= 1
        /\ job[c.id].args.valid_until_unix > apFixed[c.id]
        /\ c.args.valid_until_unix = apFixed[c.id]

\* C8: an upsert never re-binds a listing lock that is in_flight for one
\* trade to another trade.
C8_NoRebindInFlight ==
    [][\A k \in ListingKeys :
          (/\ locks[k].present /\ locks[k].state = "in_flight"
           /\ locks[k].trade_id \in {"A", "B"}
           /\ locks'[k].present)
              => locks'[k].trade_id = locks[k].trade_id]_vars


C12_ActionBudget ==
    \A i \in Slots : ticks[i].calls <= ActionsPerTick


\* C13: the quote-from-offer pipeline never posts a quote for an rfq whose
\* body.valid_until_unix is <= now at the time of the invocation.
C13_NoQuoteForExpiredRfq ==
    [][\A i \in Slots :
          (/\ ticks[i].pc = "scan" /\ ticks'[i].pc = "tool"
           /\ ticks'[i].call.tool = "intercomswap_quote_post_from_rfq")
              => ~(/\ log[ticks'[i].call.ev].body.validUntil # Null
                   /\ log[ticks'[i].call.ev].body.validUntil <= now)]_vars


\* a refund-window bound as the claim reads it: absent = the default, then
\* brought into [3600, 604800]
WinBound(v, dflt) ==
    LET w == IF v = Null THEN dflt ELSE v
    IN IF w < MinWindowSec THEN MinWindowSec ELSE IF w > MaxWindowSec THEN MaxWindowSec ELSE w

\* a fee ceiling as the claim reads it: absent = the cap of its kind
FeeCeiling(v, cap) == IF v = Null THEN cap ELSE v

\* the offer lines given to the call, as <<offer, line>> index pairs
GivenLines ==
    {p \in (1..Len(mArgs.myOfferEvents)) \X (1..3) :
        p[2] <= Len(mArgs.myOfferEvents[p[1]].body.offers)}
GivenLine(p) == mArgs.myOfferEvents[p[1]].body.offers[p[2]]

\* C14: a match returned by matchOfferForRfq carries 72 h (259200) clamped into
\* [max(rfq.min, line.min), min(rfq.max, line.max)] of some given line whose
\* range overlaps the rfq's, every bound first clamped to [3600, 604800] with
\* defaults 3600 and 604800.
C14_WindowClamped ==
    (mRet.done /\ mRet.val # Null) =>
        \E p \in GivenLines :
            LET rfqBody == mArgs.rfqEvt.body
                lo == Max2(WinBound(rfqBody.minWin, 3600), WinBound(GivenLine(p).minWin, 3600))
                hi == Min2(WinBound(rfqBody.maxWin, 604800), WinBound(GivenLine(p).maxWin, 604800))
            IN /\ lo <= hi
               /\ mRet.val = (IF 259200 < lo THEN lo ELSE IF 259200 > hi THEN hi ELSE 259200)

C14_Witness ==
    /\ mRet.done /\ mRet.val # Null /\ mRet.val # 259200
    /\ mArgs.rfqEvt.body.maxWin = 700000

\* C15: matchOfferForRfq returns a match only if some unexpired offer given to
\* it has a line with the rfq's btc_sats and usdt_amount and with each of the
\* three fee ceilings <= the rfq's; otherwise it returns null.
C15_MatchOnlyIfLine ==
    (mRet.done /\ mRet.val # Null) =>
        \E p \in GivenLines :
            LET rfqBody == mArgs.rfqEvt.body
                offerBody == mArgs.myOfferEvents[p[1]].body
                line == GivenLine(p)
            IN /\ ~(offerBody.validUntil # Null /\ offerBody.validUntil <= mArgs.nowSec)
               /\ line.btc = rfqBody.btc /\ line.usdt = rfqBody.usdt
               /\ FeeCeiling(line.maxPlat, 500) <= FeeCeiling(rfqBody.maxPlat, 500)
               /\ FeeCeiling(line.maxTrade, 1000) <= FeeCeiling(rfqBody.maxTrade, 1000)
               /\ FeeCeiling(line.maxTotal, 1500) <= FeeCeiling(rfqBody.maxTotal, 1500)

C15_Witness ==
    /\ mRet.done /\ mRet.val # Null
    /\ Len(mArgs.myOfferEvents) = 2
    /\ mArgs.myOfferEvents[1].body.validUntil = MatchNow
    /\ mArgs.myOfferEvents[1].body.offers[1].btc = mArgs.rfqEvt.body.btc


\* the runTool invocations made for the job object in slot id, and their number
\* (every invocation has returned or thrown, or is in flight)
CallsOf(id) == {c \in apCalls : c.id = id}
Invocations(id) == job[id].runs + job[id].inFlight

\* the interval timer callback of the job in slot id runs in this step
TimerTick(id) ==
    job[id].pc = "live" /\ job'[id].pc = "live" /\ job'[id].nextFire > job[id].nextFire

\* C16: no runTool invocation of an autopost job is made once the clock has
\* reached its valid_until_unix, and the timer tick that finds the job expired
\* removes it from the manager and clears its timer without invoking runTool.
C16_NoRunAfterExpiry ==
    /\ [](\A c \in apCalls : c.at < apFixed[c.id])
    /\ [][\A id \in JobIds :
            (TimerTick(id) /\ apNow >= job[id].validUntilUnix)
                => /\ ~job'[id].timer
                   /\ jobs'[job[id].name] # id
                   /\ apCalls' = apCalls]_vars

C16_Witness ==
    \E id \in JobIds :
        /\ job[id].pc = "live" /\ job[id].lastError = "expired" /\ ~job[id].timer
        /\ job[id].nextFire > job[id].validUntilUnix
        /\ CallsOf(id) # {}
        /\ jobs[job[id].name] = 0

\* C17: after stop({name}) has returned for a registered job, runTool is not
\* invoked again for that job, whatever was in flight or queued.
C17_NoRunAfterStop ==
    [][\A id \in JobIds :
          (job[id].stopped /\ job'[id].stopped)
              => job'[id].runs + job'[id].inFlight = Invocations(id)]_vars

C19_FirstRunKeepsJob ==
    /\ [](\A id \in JobIds :
            job[id].pc = "first" => Invocations(id) = 1 /\ Cardinality(CallsOf(id)) = 1)
    /\ [][\A id \in JobIds :
            /\ (job[id].pc = "first" /\ job'[id].pc # "first")
                  => /\ job'[id].pc = "live" /\ job'[id].timer
                     /\ jobs'[job[id].name] = id
                     /\ job'[id].runs = 1
                     /\ job'[id].lastOk \in {"true", "false"}
                     /\ job'[id].lastOk = "false" <=> job'[id].lastError = "error"
                     /\ job'[id].inFlight = 0
            /\ (job[id].pc = "live" /\ job[id].timer /\ job'[id].pc = "live" /\ ~job'[id].timer)
                  => job'[id].stopped \/ job'[id].lastError = "expired"]_vars

C19_Witness ==
    \E id \in JobIds :
        /\ job[id].pc = "live" /\ job[id].runs = 1 /\ job[id].lastOk = "false"
        /\ job[id].timer /\ jobs[job[id].name] = id
        /\ job[id].inFlight = 1 /\ Invocations(id) = 2

\* C20: start() called with a name held by a registered job, or with a tool
\* that is neither of the two publish tools, throws, invokes no runTool and
\* leaves every job and the registry as they were.
C20_StartRejected ==
    [][\A c \in ApStartCalls :
          (/\ \/ jobs[c.name] # 0
              \/ c.tool \notin {"intercomswap_offer_post", "intercomswap_rfq_post"}
           /\ ApStart(c.name, c.tool, c.interval_sec, c.ttl_sec, c.valid_until_unix, c.args))
              => /\ apLast' \in {"name is required", "name already exists", "tool not allowed"}
                 /\ UNCHANGED <<job, jobs, apFixed, apCalls>>]_vars

C20_Witness ==
    /\ apLast = "name already exists"
    /\ \E n \in ApNames : n # "" /\ jobs[n] # 0 /\ job[jobs[n]].timer

----------------------------------------------------------------------------
\* the horizon start() computes for a call: (given ?? now + ttl_sec) - now
HorizonOf(c) ==
    (IF c.valid_until_unix # Null THEN c.valid_until_unix ELSE apNow + c.ttl_sec) - apNow

\* a call whose ttl_sec is missing or outside [10, 604800], or whose horizon
\* is outside [10, 604800]
BadValidity(c) ==
    \/ c.ttl_sec = Null
    \/ c.ttl_sec < 10
    \/ c.ttl_sec > 604800
    \/ HorizonOf(c) < 10
    \/ HorizonOf(c) > 604800

\* C21: start() rejects, creating no job and invoking no runTool, whenever
\* ttl_sec is missing, below 10 or above 604800, or the horizon
\* valid_until_unix - now is below 10 or above 604800.
C21_BadValidityRejected ==
    [][\A c \in ValidityCalls :
          (BadValidity(c)
           /\ ApStart(c.name, c.tool, c.interval_sec, c.ttl_sec, c.valid_until_unix, c.args))
          => /\ apLast' # ""
             /\ UNCHANGED <<job, jobs, apFixed, apCalls>>]_vars

\* the last start() was refused for its horizon, and the job of an earlier
\* start() is registered
C21_Witness ==
    /\ apLast \in {"validity horizon too short", "validity horizon too long"}
    /\ \E id \in JobIds : job[id].pc = "live" /\ jobs[job[id].name] = id

----------------------------------------------------------------------------
\* the columns of a row other than updated_at
SameButUpdated(r1, r2) ==
    /\ r1.present = r2.present
    /\ r1.state = r2.state
    /\ r1.ln_preimage_hex = r2.ln_preimage_hex
    /\ r1.sol_refund_after_unix = r2.sol_refund_after_unix
    /\ r1.created_at = r2.created_at

\* C22: upsertTrade(id, {}) on an existing trade leaves every field except
\* updated_at unchanged (state and ln_preimage_hex in particular), and no
\* upsertTrade call on an existing trade changes its created_at.
C22_EmptyPatchKeepsRow ==
    [][\A k \in TradeKeys :
          trades[k].present =>
             /\ trades'[k].present /\ trades'[k].created_at = trades[k].created_at
             /\ upsertTrade(k, NoPatch) => SameButUpdated(trades[k], trades'[k])]_vars

\* a trade in ln_paid with its preimage, written again after it was created
C22_Witness ==
    \E k \in TradeKeys :
       /\ trades[k].present /\ trades[k].state = "ln_paid" /\ trades[k].ln_preimage_hex = "aa"
       /\ trades[k].created_at < trades[k].updated_at /\ trades[k].updated_at = dbNow

----------------------------------------------------------------------------
\* the arguments the two list queries are given
QueryLimits == {NotFinite, 0, 1}
QueryOffsets == {NotFinite, 1}
QueryStates == {Undef, "ln_paid", "escrow", " escrow "}
QueryTimes == {Null} \cup (0..MaxDbTime)

\* r lists rows of M only, each once, by updated_at descending, and is the
\* page of n rows after the first off rows
IsPageOf(r, M, n, off) ==
    /\ \A i \in 1..Len(r) : r[i] \in M
    /\ \A i, j \in 1..Len(r) : i < j =>
          r[i] # r[j] /\ trades[r[i]].updated_at >= trades[r[j]].updated_at
    /\ Len(r) = Min2(n, Max2(0, Cardinality(M) - off))
    /\ \A k \in M \ Range(r) :
          \/ \A i \in 1..Len(r) : trades[k].updated_at >= trades[r[i]].updated_at
          \/ \A i \in 1..Len(r) : trades[k].updated_at <= trades[r[i]].updated_at
    /\ Cardinality({k \in M \ Range(r) :
                      \E i \in 1..Len(r) : trades[k].updated_at > trades[r[i]].updated_at}) <= off

\* C23: after any sequence of upsertTrade calls, listOpenClaims({state}) returns
\* exactly the trades whose state is the given state (read without the blanks
\* around it, ln_paid when none is given) and whose ln_preimage_hex is not
\* null, by updated_at descending, cut to offset and limit.
C23_OpenClaimsExact ==
    \A limit \in QueryLimits, offset \in QueryOffsets, state \in QueryStates :
       \A r \in listOpenClaims(limit, offset, state) :
          IsPageOf(r, {k \in TradeKeys : /\ trades[k].present
                                         /\ trades[k].state = StateOf(state, "ln_paid")
                                         /\ trades[k].ln_preimage_hex # NullText},
                   LimitOf(limit), OffsetOf(offset))

\* two trades in ln_paid with a preimage, written at different times: the
\* second page of one row holds the older one; and a query for escrow finds none
C23_Witness ==
    /\ \A k \in TradeKeys : /\ trades[k].present /\ trades[k].state = "ln_paid"
                            /\ trades[k].ln_preimage_hex = "aa"
    /\ trades["T1"].updated_at < trades["T2"].updated_at
    /\ listOpenClaims(1, 1, Undef) = {<<"T1">>}
    /\ listOpenClaims(NotFinite, NotFinite, Undef) = {<<"T2", "T1">>}
    /\ listOpenClaims(NotFinite, NotFinite, " escrow ") = {<<>>}

\* C24: after any sequence of upsertTrade calls, listOpenRefunds({state, nowUnix})
\* returns exactly the trades whose state is the given state (escrow when
\* none is given) and whose sol_refund_after_unix is not null and <= nowUnix;
\* a trade whose refund time is still to come, or in another state, is never
\* returned.
C24_OpenRefundsExact ==
    \A nowUnix \in QueryTimes, limit \in QueryLimits, offset \in QueryOffsets,
       state \in QueryStates :
       \A r \in listOpenRefunds(nowUnix, limit, offset, state) :
          IsPageOf(r, {k \in TradeKeys :
                         /\ trades[k].present
                         /\ trades[k].state = StateOf(state, "escrow")
                         /\ trades[k].sol_refund_after_unix # Null
                         /\ trades[k].sol_refund_after_unix
                               <= (IF nowUnix = Null THEN dbNow ELSE nowUnix)},
                   LimitOf(limit), OffsetOf(offset))

\* a trade in escrow whose refund time is 1 and a trade in ln_paid with the
\* same refund time: at time 1 the query returns the first only, at time 0 none
C24_Witness ==
    /\ trades["T1"].present /\ trades["T1"].state = "escrow"
    /\ trades["T1"].sol_refund_after_unix = 1
    /\ trades["T2"].present /\ trades["T2"].state = "ln_paid"
    /\ trades["T2"].sol_refund_after_unix = 1
    /\ listOpenRefunds(1, NotFinite, NotFinite, Undef) = {<<"T1">>}
    /\ listOpenRefunds(0, NotFinite, NotFinite, Undef) = {<<>>}

----------------------------------------------------------------------------
\* C25: an error thrown by a pipeline action or a settlement stage never aborts
\* the tick, and nothing but a failure to read the event log does: a tick that
\* has read the log ends only when its pipelines have gone through their queues.
C25_TickNeverAborted ==
    [][\A i \in Slots :
          (ticks[i].pc \notin {"idle", "keepalive"} /\ ticks'[i].pc = "idle")
             => ticks[i].pc = "scan"]_vars

----------------------------------------------------------------------------
\* C27: the join tool is invoked only for a swap_invite event that is not local
\* and whose invitee public key is the local peer's: an invite that names
\* another invitee, or none, is never joined.
C27_JoinOnlyWhenInvited ==
    \A i \in Slots :
       Invoked(i, "intercomswap_join_from_swap_invite") =>
          /\ log[ticks[i].call.ev].kind = "swap.swap_invite"
          /\ ~IsLocal(log[ticks[i].call.ev], LocalPeer)
          /\ log[ticks[i].call.ev].body.invitee = LocalPeer

----------------------------------------------------------------------------
\* C26: when stop() returns, the tick timer is cleared, running and
\* tick_in_flight are false, and the event window, the four dedupe signature
\* sets, auto_accepted_trade_lock, stage_done, stage_in_flight,
\* stage_retry_after and trade_preimage are all empty.
C26_StopClearsAll ==
    [][Stop => /\ ~timerRef' /\ ~running' /\ ~tickInFlight'
               /\ events' = <<>>
               /\ autoQuotedRfqSig' = <<>> /\ autoAcceptedQuoteSig' = <<>>
               /\ autoInvitedAcceptSig' = <<>> /\ autoJoinedInviteSig' = <<>>
               /\ autoAcceptedTradeLock' = <<>>
               /\ stageDone' = <<>> /\ stageInFlight' = <<>>
               /\ stageRetryAfter' = <<>> /\ tradePreimage' = <<>>]_vars

\* stop() has returned in a run in which a stage had been marked done, and
\* nothing has run since: the driver is stopped with every cache empty
C26_Witness ==
    /\ phase = "stopped" /\ ~running /\ ~timerRef /\ ~tickInFlight
    /\ \E k \in okKeys : k[1] # "evt"
    /\ events = <<>> /\ Caches = EmptyCaches

----------------------------------------------------------------------------
\* C28: when an RPC gets no reply within its timeout, its promise rejects with
\* the rpc timeout error, the connection is reset (ws is null), every other
\* pending RPC is rejected, and the pending table is left empty.
C28_RpcTimeoutResets ==
    [][\A id \in RpcIds :
          (id \in rpcTimers /\ BrTimeout(id))
             => /\ rpcs'[id] = Rejected("SC-Bridge rpc timeout")
                /\ ws' = "null"
                /\ \A other \in RpcIds : rpcs[other].st = "pending" => rpcs'[other].st = "rejected"
                /\ _pending' = {}]_vars

\* an RPC has timed out while another RPC was pending: both are rejected with
\* the timeout error, and an RPC answered before is still resolved
C28_Witness ==
    /\ ws = "null" /\ _pending = {}
    /\ \E a, b, c \in RpcIds :
          /\ a # b
          /\ rpcs[a] = Rejected("SC-Bridge rpc timeout")
          /\ rpcs[b] = Rejected("SC-Bridge rpc timeout")
          /\ rpcs[c].st = "resolved"

\* the cooldown, in ticks of the clock, that the claim gives the key: 5 s for a
\* negotiation action, 15 s for sol_claim, 10 s for every other stage
CooldownOfKey(key) ==
    IF key[1] = "evt" THEN 1 ELSE IF key[Len(key)] = "sol_claim" THEN 3 ELSE 2

\* activation i calls the tool of its attempt in this step
ToolInvoked(i) == ticks[i].pc \in {"scan", "rcpt"} /\ ticks'[i].pc = "tool"

\* C29: when an attempt fails at time t, its stage key leaves the in-flight
\* set and is not marked done, and the tool of a failed stage (a failed
\* negotiation action) is not invoked again for the same trade (the same
\* envelope signature) before t + 10 s (t + 15 s for sol_claim, t + 5 s for a
\* negotiation action).
C29_CooldownRespected ==
    [][/\ \A f \in failAt' \ failAt :
             f.key[1] # "evt" => ~SetHas(stageInFlight', f.key) /\ ~MapHas(stageDone', f.key)
       /\ \A i \in Slots : ToolInvoked(i) =>
             \A f \in failAt : f.key = ticks'[i].call.key => now >= f.at + CooldownOfKey(f.key)]_vars

\* C30: for both allowed tools, the args of every runTool invocation of an
\* autopost job carry no ttl_sec, even when the args the job was started
\* with contain one.
C30_NoTtlInRunArgs ==
    \A c \in apCalls : c.args.ttl_sec = Null

\* the row upsertListingLock(k, patch) builds before its checks
LockNext(k, patch) ==
    Merge(IF locks[k].present THEN locks[k]
          ELSE [NoRow EXCEPT !.created_at = dbNow, !.updated_at = dbNow], patch, dbNow)

\* the upsert the claim says throws: the resulting state is neither in_flight
\* nor filled, or listing_type or listing_id is missing
BadLock(k, patch) ==
    \/ NormState(LockNext(k, patch).state) \notin {"in_flight", "filled"}
    \/ LockNext(k, patch).listing_type = ""
    \/ LockNext(k, patch).listing_id = ""

\* C31: every row of listing_locks has state in_flight or filled; an
\* upsertListingLock whose resulting state is anything else, or whose row
\* lacks listing_type or listing_id, leaves the table unchanged; an upsert on
\* an existing key never changes the row's created_at.
C31_LockStates ==
    /\ [](\A k \in ListingKeys : locks[k].present => locks[k].state \in {"in_flight", "filled"})
    /\ [][/\ \A k \in ListingKeys, patch \in LockPatches :
               (locks' # locks /\ BadLock(k, patch)) => ~upsertListingLock(k, patch)
          /\ \A k \in ListingKeys :
               (locks[k].present /\ locks'[k].present)
                  => locks'[k].created_at = locks[k].created_at]_vars

\* a row inserted at the clock's time was upserted again later and is filled
C31_Witness ==
    \E k \in ListingKeys :
        /\ locks[k].present /\ locks[k].state = "filled"
        /\ locks[k].updated_at > locks[k].created_at
        /\ locks[k].created_at # 7

\* C32: between the return of stop() and the next start() call, while the
\* driver is not running, it invokes no tool and its caches stay empty, also
\* when a tick was suspended on an external call while stop() ran.
C32_QuietAfterStop ==
    [][(phase = "stopped" /\ ~running /\ startsPending = 0 /\ phase' = "stopped")
          => /\ \A i \in Slots : ~ToolInvoked(i)
             /\ Caches' = EmptyCaches]_vars

\* C33: a driver never has more than one live interval timer, and stop()
\* leaves no live timer, also when start() was called again while an earlier
\* start() was awaiting its subscribe call.
C33_OneTimer ==
    /\ [](timers <= 1)
    /\ [][Stop => timers' = 0]_vars

\* C34: every live interval timer belongs to the job registered under its
\* name, so that two start() calls with one name never both leave a timer
\* and stop({name}) halts all publishing under the name, also when the
\* second start() is issued while the first awaits its first run.
C34_TimersRegistered ==
    \A id \in JobIds : job[id].timer => jobs[job[id].name] = id

\* C35: the promise of every RPC is settled once and for good: it is resolved
\* only by the reply that carries its own id, a reply settles no other RPC,
\* no settled RPC has an entry in the pending table, and every pending RPC is
\* settled in the end (by its reply, its timeout, a send failure or a reset
\* of the connection).
C35_SettledOnce ==
    /\ [](\A id \in RpcIds : id \in _pending => rpcs[id].st = "pending")
    /\ [][\A id \in RpcIds :
             /\ rpcs[id].st \in {"resolved", "rejected"} => rpcs'[id] = rpcs[id]
             /\ (rpcs[id].st = "pending" /\ rpcs'[id].st = "resolved") => BrReply(id)
             /\ (id \in _pending /\ BrReply(id))
                   => \A other \in RpcIds \ {id} : rpcs'[other] = rpcs[other]]_vars
    /\ \A id \in RpcIds : (rpcs[id].st = "pending") ~> (rpcs[id].st \in {"resolved", "rejected"})

\* one RPC was resolved by its reply while another was pending, and the
\* other has been rejected since; nothing is left in the table
C35_Witness ==
    /\ _pending = {}
    /\ \E a, b \in RpcIds :
          /\ a < b
          /\ rpcs[b].st = "resolved"
          /\ rpcs[a].st = "rejected"
          /\ rpcs[a].err \in {"SC-Bridge closed", "SC-Bridge socket error"}

\* C36: once connect() has rejected, for whatever reason, ws is null, so
\* that the next connect() is not refused with 'Already connected'.
C36_NullAfterReject ==
    ready = "rejected" => ws = "null"

\* the stage keys of trade tid
OwnKeys(tid) == {StageKey(tid, stage) : stage \in PruneStages}

\* C37: pruning the caches of trade T leaves every stage_done,
\* stage_in_flight and stage_retry_after entry of another trade, also of a
\* trade whose id is T followed by ':' and more, and every event-retry
\* entry as it was.
C37_PruneOnlyOwn ==
    [][\A tid \in PruneTrades \cup {"T2"} :
          PrPrune(tid) =>
             /\ \A k \in MapKeys(stageDone) \ OwnKeys(tid) :
                   MapHas(stageDone', k) /\ MapVal(stageDone', k, 0) = MapVal(stageDone, k, 0)
             /\ \A k \in Range(stageInFlight) \ OwnKeys(tid) : SetHas(stageInFlight', k)
             /\ \A k \in MapKeys(stageRetryAfter) \ OwnKeys(tid) :
                   /\ MapHas(stageRetryAfter', k)
                   /\ MapVal(stageRetryAfter', k, 0) = MapVal(stageRetryAfter, k, 0)]_vars

\* C38: the sol_claim tool is invoked only with a preimage of 64 hex digits,
\* the one cached for the trade or, when the cache has none, the one the
\* trade's receipt holds; when the receipt yields none either, the tool is
\* not invoked and the stage is marked for a retry 15 s later.
C38_ClaimNeedsPreimage ==
    [][\A i \in Slots :
          /\ (ToolInvoked(i) /\ ticks'[i].call.tool = "intercomswap_swap_sol_claim_and_post")
                => /\ ticks'[i].call.pre = "preimage"
                   /\ ticks[i].pc = "scan"
                         => MapVal(tradePreimage, ticks'[i].call.trade, "") = "preimage"
          /\ (ticks[i].pc = "rcpt" /\ ticks'[i].pc \notin {"rcpt", "tool"})
                => /\ MapVal(stageRetryAfter', ticks[i].call.key, 0) = now + 3
                   /\ ~SetHas(stageInFlight', ticks[i].call.key)]_vars

\* the claim tool is being called with the preimage the receipt gave, after
\* an earlier attempt of the same stage found none
C38_Witness ==
    \E i \in Slots :
        /\ Invoked(i, "intercomswap_swap_sol_claim_and_post")
        /\ ticks[i].call.pre = "preimage"
        /\ \E f \in failAt : f.key = ticks[i].call.key

\* C39: the quote-from-offer pipeline posts no quote for an RFQ signed by the
\* local peer, with or without a local flag on the log event.
C39_NoQuoteForOwnRfq ==
    \A i \in Slots :
        Invoked(i, "intercomswap_quote_post_from_rfq")
            => envelopeSigner(log[ticks[i].call.ev]) # LocalPeer

\* C40: whenever no tick is executing, each dedupe set holds at most
\* dedupe_max signatures, stage_done, stage_in_flight and stage_retry_after
\* at most stage_max entries each, trade_preimage at most preimage_max
\* entries, and the event window at most max_events events.
C40_CachesBounded ==
    (\A i \in Slots : ticks[i].pc = "idle") =>
        /\ Len(autoQuotedRfqSig) <= DedupeMax /\ Len(autoAcceptedQuoteSig) <= DedupeMax
        /\ Len(autoInvitedAcceptSig) <= DedupeMax /\ Len(autoJoinedInviteSig) <= DedupeMax
        /\ Len(stageDone) <= StageMax /\ Len(stageInFlight) <= StageMax
        /\ Len(stageRetryAfter) <= StageMax
        /\ Len(tradePreimage) <= PreimageMax
        /\ Len(events) <= MaxEvents
====
